---- MODULE Spec2Model ----
(***************************************************************************)
(* State-machine model of the Naruto reward bot core:                      *)
(*   - SpamDetector            (src/core/spam_check.py)                    *)
(*   - EventManager            (src/core/event_manager.py)                 *)
(*   - MilestoneManager        (src/core/milestones.py, src/main.py)       *)
(*   - WriteQueue              (src/core/write_queue.py)                   *)
(*   - cache + storage writes  (src/core/cache.py, storage_mongodb.py)     *)
(* Each component has its own specification (SpamSpec, EventSpec, ...);    *)
(* all share the variables declared here, and a component's actions leave  *)
(* the other components' variables unchanged.                              *)
(***************************************************************************)
EXTENDS Integers, Sequences, FiniteSets, TLC

VARIABLES
    now,             \* time.time(), in whole ticks
    \* ---- SpamDetector fields (spam_check.py:9-35)
    cfg,             \* enabled, thresholds and type toggles
    user_history,    \* user -> sequence of [t, text]
    media_history,   \* user -> sequence of timestamps
    global_history,  \* sequence of timestamps
    ignored_users,   \* user -> ignore_until, or NotIgnored when absent
    \* ---- the traffic is_spam was called with (what the claims speak about)
    last,            \* the last is_spam call: [n, user, t, wl, res]
    askedAt,         \* user -> tick -> non-whitelisted messages of the user at the tick
    sentAt,          \* user -> tick -> those of them classified Allow
    seenAt,          \* tick -> messages that reached the flood check at the tick
    mediaAt,         \* user -> tick -> media messages that reached the media check at the tick
    solo,            \* user -> a detector that is called with this user's messages only
    \* ---- EventManager (event_manager.py:7-15) and its persisted documents
    ev,              \* mode, min/max_target, target/current_count, active, loop, paused_until
    evStore,         \* rewards collection: settings.interval and event_state (<<>>: no document)
    pm,              \* task -> position of its process_message call, with the document being saved
    evRun,           \* bookkeeping of the calls since the last start_event / set_fixed
    \* ---- MilestoneManager (milestones.py:4-17) and the persisted bot configuration
    msConf,          \* config['milestones'] in memory: active_event, last_triggered
    msStore,         \* the milestones section of the bot_config document in the store
    msFired,         \* thresholds check_milestone has returned as triggered
    msRefired,       \* a threshold was returned as triggered a second time
    msBonus,         \* the bonus the last calculate_reward read, and whether the window was over
    msErr,           \* an exception of the MilestoneManager has reached a command handler
    \* ---- WriteQueue (write_queue.py:9-15) and the counters in the store
    wqBuf,           \* _stat_increments: <<[key, amount]>> in insertion order
    wq,              \* the flush loop task: pc, and the bulk writes its flush still owes
    wqStore,         \* key -> total the store has applied
    wqG,             \* bookkeeping: calls made, calls per key since the swap, ops handed over
    \* ---- user cache (cache.py:7) and the users collection
    userStore,       \* user -> status document in the store
    user_cache,      \* user -> <<>> or <<[status, expires]>>
    cacheLast,       \* the last cache or store operation and what it returned
    caches,          \* the five caches of cache.py: cache -> key -> the entity cached under it
    \* ---- group_handler (main.py:3220-3343)
    handled,         \* the last message group_handler screened: is_spam result, status, outcome
    gate,            \* that message, the status the handler read and the task handling it
    \* ---- the admin commands of the EventManager (main.py:1031-1055, 3459-3489)
    replied          \* the reply of the last command: [cmd, lo, hi]

spamVars == <<cfg, user_history, media_history, global_history, ignored_users,
              last, askedAt, sentAt, seenAt, mediaAt, solo>>

eventVars == <<ev, evStore, pm, evRun>>

milestoneVars == <<msConf, msStore, msFired, msRefired, msBonus, msErr>>

queueVars == <<wqBuf, wq, wqStore, wqG>>

cacheVars == <<userStore, user_cache, cacheLast, caches>>

pipelineVars == <<handled, gate, replied>>

vars == <<now, spamVars, eventVars, milestoneVars, queueVars, cacheVars, pipelineVars>>

\* what the operations of one component leave alone
notSpam == <<eventVars, milestoneVars, queueVars, cacheVars, pipelineVars>>
notEvent == <<spamVars, milestoneVars, queueVars, cacheVars, pipelineVars>>
notMilestone == <<spamVars, eventVars, queueVars, cacheVars, pipelineVars>>
notQueue == <<spamVars, eventVars, milestoneVars, cacheVars, pipelineVars>>
notCache == <<spamVars, eventVars, milestoneVars, queueVars, pipelineVars>>

(***************************************************************************)
(* Bounds of the model.                                                    *)
(***************************************************************************)
MaxNow == 2      \* the clock stops advancing here
MaxCalls == 4    \* is_spam calls per behaviour
MaxOver == 2     \* process_message calls beyond the target set by start_event / set_fixed
MaxBootPM == 0   \* process_message calls before the first start_event / set_fixed
MaxSets == 1     \* start_event / set_fixed commands per behaviour
MaxRestarts == 1 \* restarts of the process per behaviour
MaxHours == 4    \* clock of the milestone commands, in hours
MaxIncs == 4     \* increment_stat calls per behaviour

(***************************************************************************)
(* Small helpers.                                                          *)
(***************************************************************************)
Ticks == 0..MaxNow

RECURSIVE SumRange(_, _, _)
\* f[lo] + ... + f[hi] over the ticks of the model
SumRange(f, lo, hi) ==
    IF lo > hi THEN 0
    ELSE (IF lo \in DOMAIN f THEN f[lo] ELSE 0) + SumRange(f, lo + 1, hi)

RECURSIVE DropWhileOlder(_, _)
\* while dq and dq[0] < cutoff: dq.popleft()      (timestamps)
DropWhileOlder(dq, cutoff) ==
    IF dq # <<>> /\ Head(dq) < cutoff THEN DropWhileOlder(Tail(dq), cutoff) ELSE dq

RECURSIVE DropWhileOlderT(_, _)
\* while history and history[0][0] < cutoff: history.popleft()
DropWhileOlderT(dq, cutoff) ==
    IF dq # <<>> /\ Head(dq).t < cutoff THEN DropWhileOlderT(Tail(dq), cutoff) ELSE dq

(***************************************************************************)
(* Texts are sequences of characters.                                      *)
(***************************************************************************)
WordChars == {"h", "i", "y", "o", "a", "b"}     \* characters matched by \w
TxtEmpty == <<>>
TxtHi == <<"h", "i">>
TxtYo == <<"y", "o">>
TxtSym == <<"!", "!", "!", "!", "!", "!">>
Texts == {TxtEmpty, TxtHi, TxtYo, TxtSym}
Users == {"u1", "u2"}
\* the messages the pipeline hands to is_spam: (text, is_media)
Messages ==
    { [text |-> TxtHi, media |-> FALSE], [text |-> TxtSym, media |-> FALSE],
      [text |-> TxtEmpty, media |-> TRUE] }

\* re.search(r'(.)\1{9,}', text): a run of at least 10 equal characters
RepeatRun == 10
HasRepeatedRun(text) ==
    \E i \in 1..(Len(text) - RepeatRun + 1) :
        /\ text[i] # "\n"
        /\ \A j \in i..(i + RepeatRun - 1) : text[j] = text[i]

\* len(text) > 5 and len(re.findall(r'\w', text)) < 2
SymbolMinLen == 5
SymbolMaxWord == 2
IsSymbolSpam(text) ==
    /\ Len(text) > SymbolMinLen
    /\ Cardinality({i \in 1..Len(text) : text[i] \in WordChars}) < SymbolMaxWord

(***************************************************************************)
(* difflib.SequenceMatcher(None, a, b).ratio(): Ratcliff/Obershelp.        *)
(* Offsets are 0-based and ranges half-open, as in difflib.                *)
(***************************************************************************)
\* length of the common run starting at a[i], b[j], inside [.., ahi) x [.., bhi)
RECURSIVE RunAt(_, _, _, _, _, _)
RunAt(a, b, i, j, ahi, bhi) ==
    IF i < ahi /\ j < bhi /\ a[i + 1] = b[j + 1]
    THEN 1 + RunAt(a, b, i + 1, j + 1, ahi, bhi)
    ELSE 0

\* find_longest_match: the longest block; of those, earliest in a, then in b
FindLongestMatch(a, b, alo, ahi, blo, bhi) ==
    LET cands == { [i |-> i, j |-> j, k |-> RunAt(a, b, i, j, ahi, bhi)] :
                       i \in alo..(ahi - 1), j \in blo..(bhi - 1) }
        Better(x, y) == \/ x.k > y.k
                        \/ x.k = y.k /\ x.i < y.i
                        \/ x.k = y.k /\ x.i = y.i /\ x.j <= y.j
    IN  IF cands = {} THEN [i |-> alo, j |-> blo, k |-> 0]
        ELSE CHOOSE x \in cands : \A y \in cands : Better(x, y)

\* get_matching_blocks: total size of the matching blocks
RECURSIVE MatchSize(_, _, _, _, _, _)
MatchSize(a, b, alo, ahi, blo, bhi) ==
    LET m == FindLongestMatch(a, b, alo, ahi, blo, bhi)
    IN  IF m.k = 0 THEN 0
        ELSE m.k
             + (IF alo < m.i /\ blo < m.j
                THEN MatchSize(a, b, alo, m.i, blo, m.j) ELSE 0)
             + (IF m.i + m.k < ahi /\ m.j + m.k < bhi
                THEN MatchSize(a, b, m.i + m.k, ahi, m.j + m.k, bhi) ELSE 0)

\* ratio() >= pct/100, with ratio = 2.0*matches/length, or 1.0 when length = 0
RatioAtLeast(a, b, pct) ==
    LET length == Len(a) + Len(b)
        matches == MatchSize(a, b, 0, Len(a), 0, Len(b))
    IN  IF length = 0 THEN 100 >= pct ELSE 2 * matches * 100 >= pct * length

\* the table of similar pairs, by duplicate threshold
SimilarPairs(pct) == { p \in Texts \X Texts : RatioAtLeast(p[1], p[2], pct) }
SimilarAt85 == SimilarPairs(85)

(***************************************************************************)
(* SpamDetector (src/core/spam_check.py).                                  *)
(***************************************************************************)
NotIgnored == -1     \* user_id not in ignored_users

\* is_spam returns False, True or (kind, detail); the kinds are
\* "global_flood", "stickers", "burst", "duplicate", "lowquality"
Allow == "allow"                  \* return False
AlreadyIgnored == "ignored"       \* return True

\* thresholds of the detector under check (constructor arguments / update_config)
AllTypes == [burst |-> TRUE, flood |-> TRUE, duplicate |-> TRUE,
             lowquality |-> TRUE, stickers |-> TRUE]

BaseCfg ==
    [ enabled |-> TRUE,
      ignore_duration |-> 1,
      burst_limit |-> 2,
      burst_window |-> 2,
      global_flood_limit |-> 2,
      global_flood_window |-> 1,
      duplicate_threshold |-> 85,
      media_limit |-> 1,
      media_window |-> 1,
      types |-> AllTypes ]

\* the configurations a behaviour may start in (toggle / set_type_state)
SpamConfigs ==
    { BaseCfg,
      [BaseCfg EXCEPT !.types.flood = FALSE],
      [BaseCfg EXCEPT !.enabled = FALSE] }

\* SpamDetector.__init__: empty histories, nobody ignored
SpamFresh ==
    /\ user_history = [u \in Users |-> <<>>]
    /\ media_history = [u \in Users |-> <<>>]
    /\ global_history = <<>>
    /\ ignored_users = [u \in Users |-> NotIgnored]
    /\ last = [n |-> 0, user |-> "u1", t |-> 0, wl |-> FALSE, res |-> Allow]
    /\ askedAt = [u \in Users |-> [t \in Ticks |-> 0]]
    /\ sentAt = [u \in Users |-> [t \in Ticks |-> 0]]
    /\ seenAt = [t \in Ticks |-> 0]
    /\ mediaAt = [u \in Users |-> [t \in Ticks |-> 0]]
    /\ solo = [u \in Users |-> [res |-> Allow, uh |-> <<>>, mh |-> <<>>, gh |-> <<>>,
                                 ign |-> NotIgnored]]

\* the detector as constructed from one of the configurations
SpamInit == cfg \in SpamConfigs /\ SpamFresh

\* mutant of is_ignored: the ignore ends one tick early
is_ignored_early(ign, user, t) == ign[user] # NotIgnored /\ t + 1 < ign[user]

\* is_ignored: True while now < ignore_until; an elapsed entry is popped
is_ignored(ign, user, t) == ign[user] # NotIgnored /\ t < ign[user]

EvictIgnored(ign, user, t) ==
    IF ign[user] # NotIgnored /\ ~(t < ign[user])
    THEN [ign EXCEPT ![user] = NotIgnored] ELSE ign

\* mutant of Duplicates: a ratio exactly at the threshold does not count
Duplicates_strict(c, history, text) ==
    Cardinality({ i \in 1..Len(history) :
                    \/ history[i].text = text
                    \/ RatioAtLeast(text, history[i].text, c.duplicate_threshold + 1) })

\* number of retained prior texts equal or similar to text (lines 96-104)
Duplicates(c, history, text) ==
    Cardinality({ i \in 1..Len(history) :
                    \/ history[i].text = text
                    \/ RatioAtLeast(text, history[i].text, c.duplicate_threshold) })

DuplicateMin == 2

\* mutant of FloodChecked: the flood toggle is not looked at
FloodChecked_always(c) == TRUE

\* if self.types['flood']
FloodChecked(c) == c.types.flood

\* mutant of FloodFires: fires one message late
FloodFires_late(c, gh) == Len(gh) > c.global_flood_limit + 1

\* if len(self.global_history) > self.global_flood_limit
FloodFires(c, gh) == Len(gh) > c.global_flood_limit

\* mutant of MediaFires: fires when the window reaches the limit
MediaFires_inclusive(c, mh) == Len(mh) >= c.media_limit

\* if len(m_hist) > self.media_limit
MediaFires(c, mh) == Len(mh) > c.media_limit

\* mutant of BurstFires: fires only above the limit
BurstFires_late(c, history) == Len(history) > c.burst_limit

\* mutant of BurstFires: counts the message being classified as well
BurstFires_inclusive(c, history) == Len(history) + 1 >= c.burst_limit

\* if len(history) >= self.burst_limit
BurstFires(c, history) == Len(history) >= c.burst_limit

\* mutant of Bypassed: the whitelist flag is not looked at
Bypassed_disabled_only(c, is_whitelisted) == ~c.enabled

\* if not self.enabled: return False / if is_whitelisted: return False
Bypassed(c, is_whitelisted) == ~c.enabled \/ is_whitelisted

\* The state and the return value of one is_spam call at time t.
\* res: Allow, AlreadyIgnored or the spam kind.
is_spam(c, uh, mh, gh, ign, user, text, is_media, is_whitelisted, t) ==
    LET same == [res |-> Allow, uh |-> uh, mh |-> mh, gh |-> gh, ign |-> ign]
    IN
    IF Bypassed(c, is_whitelisted) THEN same
    ELSE IF is_ignored(ign, user, t) THEN [same EXCEPT !.res = AlreadyIgnored]
    ELSE
    LET ign1 == EvictIgnored(ign, user, t)
        \* --- global flood
        gh1 == IF FloodChecked(c)
               THEN DropWhileOlder(Append(gh, t), t - c.global_flood_window)
               ELSE gh
    IN
    IF FloodChecked(c) /\ FloodFires(c, gh1)
    THEN [res |-> "global_flood", uh |-> uh, mh |-> mh, gh |-> gh1, ign |-> ign1]
    ELSE
    LET doMedia == is_media /\ c.types.stickers
        m1 == IF doMedia
              THEN DropWhileOlder(Append(mh[user], t), t - c.media_window)
              ELSE mh[user]
        mh1 == [mh EXCEPT ![user] = m1]
        ignSet == [ign1 EXCEPT ![user] = t + c.ignore_duration]
    IN
    IF doMedia /\ MediaFires(c, m1)
    THEN [res |-> "stickers", uh |-> uh, mh |-> mh1, gh |-> gh1, ign |-> ignSet]
    ELSE
    LET history == DropWhileOlderT(uh[user], t - c.burst_window)
        uh1 == [uh EXCEPT ![user] = history]
    IN
    IF c.types.burst /\ BurstFires(c, history)
    THEN [res |-> "burst", uh |-> uh1, mh |-> mh1, gh |-> gh1, ign |-> ignSet]
    ELSE IF ~is_media /\ text # <<>> /\ c.types.duplicate
            /\ Duplicates(c, history, text) >= DuplicateMin
    THEN [res |-> "duplicate", uh |-> uh1, mh |-> mh1, gh |-> gh1, ign |-> ignSet]
    ELSE IF ~is_media /\ text # <<>> /\ c.types.lowquality
            /\ (HasRepeatedRun(text) \/ IsSymbolSpam(text))
    THEN [res |-> "lowquality", uh |-> uh1, mh |-> mh1, gh |-> gh1, ign |-> ignSet]
    ELSE [res |-> Allow,
          uh |-> [uh EXCEPT ![user] = Append(history, [t |-> t, text |-> text])],
          mh |-> mh1, gh |-> gh1, ign |-> ign1]

\* what a call with this outcome went through
ReachedFlood(c, wl, res) == c.enabled /\ ~wl /\ res # AlreadyIgnored /\ c.types.flood
ReachedEnd(c, wl, res) == c.enabled /\ ~wl /\ res = Allow
ReachedMedia(c, wl, res, is_media) ==
    /\ c.enabled /\ ~wl /\ res \notin {AlreadyIgnored, "global_flood"}
    /\ is_media /\ c.types.stickers

\* the same call made on the detector that sees only this user's messages
SoloCall(user, msg, wl) ==
    LET own == solo[user]
        r == is_spam(cfg, [v \in Users |-> IF v = user THEN own.uh ELSE <<>>],
                     [v \in Users |-> IF v = user THEN own.mh ELSE <<>>], own.gh,
                     [v \in Users |-> IF v = user THEN own.ign ELSE NotIgnored],
                     user, msg.text, msg.media, wl, now)
    IN  [solo EXCEPT ![user] = [res |-> r.res, uh |-> r.uh[user], mh |-> r.mh[user],
                                gh |-> r.gh, ign |-> r.ign[user]]]

\* what one is_spam call does to the detector and to the record of traffic
SpamCall(user, msg, wl) ==
    /\ LET r == is_spam(cfg, user_history, media_history, global_history,
                        ignored_users, user, msg.text, msg.media, wl, now)
       IN /\ user_history' = r.uh
          /\ media_history' = r.mh
          /\ global_history' = r.gh
          /\ ignored_users' = r.ign
          /\ last' = [n |-> last.n + 1, user |-> user, t |-> now, wl |-> wl,
                       res |-> r.res]
          /\ askedAt' = IF wl THEN askedAt
                        ELSE [askedAt EXCEPT ![user][now] = @ + 1]
          /\ sentAt' = IF ReachedEnd(cfg, wl, r.res)
                       THEN [sentAt EXCEPT ![user][now] = @ + 1] ELSE sentAt
          /\ seenAt' = IF ReachedFlood(cfg, wl, r.res)
                       THEN [seenAt EXCEPT ![now] = @ + 1] ELSE seenAt
          /\ mediaAt' = IF ReachedMedia(cfg, wl, r.res, msg.media)
                        THEN [mediaAt EXCEPT ![user][now] = @ + 1] ELSE mediaAt

\* one is_spam call: it runs without suspension (no await inside)
IsSpam(user, msg, wl) ==
    /\ last.n < MaxCalls
    /\ SpamCall(user, msg, wl)
    /\ UNCHANGED <<now, cfg, solo, notSpam>>

\* one is_spam call, made as well on the detector that sees only the
\* messages of this user
IsSpamBeside(user, msg, wl) ==
    /\ last.n < MaxCalls
    /\ SpamCall(user, msg, wl)
    /\ solo' = SoloCall(user, msg, wl)
    /\ UNCHANGED <<now, cfg, notSpam>>

\* time passes
SpamTick ==
    /\ now < MaxNow
    /\ now' = now + 1
    /\ UNCHANGED <<spamVars, notSpam>>

SpamNext ==
    \/ \E u \in Users, m \in Messages, wl \in BOOLEAN : IsSpam(u, m, wl)
    \/ SpamTick

\* a detector whose burst limit leaves room for three messages, with the
\* duplicate threshold at the ratio of TxtHi and TxtHo (0.5) or above it
TxtHo == <<"h", "o">>
DupCfg == [BaseCfg EXCEPT !.burst_limit = 3, !.duplicate_threshold = 50]
DupConfigs == { DupCfg, [DupCfg EXCEPT !.duplicate_threshold = 85] }
DupMessages ==
    { [text |-> TxtHi, media |-> FALSE], [text |-> TxtHo, media |-> FALSE],
      [text |-> TxtYo, media |-> FALSE] }

DupNext ==
    \/ \E u \in Users, m \in DupMessages, wl \in BOOLEAN : IsSpam(u, m, wl)
    \/ SpamTick

(***************************************************************************)
(* EventManager (src/core/event_manager.py).  The storage calls are        *)
(* awaited: a process_message call is suspended at each of them and other  *)
(* handlers run meanwhile.  A document handed to the store is written when *)
(* the call that awaits it resumes.                                        *)
(***************************************************************************)
Tasks == {1, 2}          \* message handlers in flight at the same time
DefaultMin == 100
DefaultMax == 250
SaveEvery == 10          \* _save_state: current_count % 10 == 0

\* EventManager.__init__
EventInit ==
    /\ ev = [ mode |-> "random", min_target |-> DefaultMin, max_target |-> DefaultMax,
              target_count |-> 0, current_count |-> 0, active |-> TRUE,
              loop |-> TRUE, paused_until |-> 0 ]
    /\ evStore = [interval |-> <<>>, state |-> <<>>]
    /\ pm = [k \in Tasks |-> [pc |-> "idle", doc |-> <<>>]]
    /\ evRun = [ sets |-> 0, done |-> 0, trues |-> 0,
                 lastRet |-> FALSE, target |-> 0, undisturbed |-> FALSE,
                 overlapped |-> FALSE,
                 unsettled |-> 0, armed |-> FALSE, rerollTask |-> 0,
                 rerollFailed |-> FALSE, restarts |-> 0, stopped |-> FALSE,
                 granted |-> FALSE ]

\* the documents _save_config and _save_state write
IntervalDoc(e) == [ mode |-> e.mode, min |-> e.min_target, max |-> e.max_target,
                    loop |-> e.loop, active |-> e.active ]
StateDoc(e) == [current_count |-> e.current_count, target_count |-> e.target_count]

\* mutant of is_paused: the pause ends one second early
is_paused_early(e, t) == t + 1 < e.paused_until

\* is_paused: time.time() < self.paused_until
is_paused(e, t) == t < e.paused_until

\* _save_state(force): the store is written when forced or every 10th count
SavesState(e, force) == force \/ e.current_count % SaveEvery = 0

\* mutant of TargetReached: the target has to be exceeded
TargetReached_strict(e) == e.current_count > e.target_count

\* if self.current_count >= self.target_count
TargetReached(e) == e.current_count >= e.target_count

\* mutant of NextTargets: the draw may exceed max_target by one
NextTargets_wide(e) ==
    IF e.mode = "random" THEN e.min_target..(e.max_target + 1) ELSE {e.target_count}

\* _generate_random_target when looping in random mode, else the target stays
NextTargets(e) ==
    IF e.mode = "random" THEN e.min_target..e.max_target ELSE {e.target_count}

\* mutant of Stopped: the trigger leaves the event active
Stopped_active(e) == [e EXCEPT !.current_count = 0]

\* the trigger without loop: current_count = 0, active = False
Stopped(e) == [e EXCEPT !.current_count = 0, !.active = FALSE]

Quiescent == \A k \in Tasks : pm[k].pc = "idle"

\* process_message calls made since the last start_event / set_fixed
Calls == evRun.done + Cardinality({k \in Tasks : pm[k].pc # "idle"})

\* a process_message call returns ret
Returned(run, k, ret) ==
    [run EXCEPT !.done = @ + 1, !.trues = @ + (IF ret THEN 1 ELSE 0), !.lastRet = ret,
                !.unsettled = @ + (IF ret THEN 1 ELSE 0),
                !.rerollTask = IF @ = k THEN 0 ELSE @,
                !.rerollFailed = @ \/ (run.rerollTask = k /\ ~ret)]

\* process_message from the comparison on (lines 126-145), entered with the
\* fields e, the store st and the bookkeeping run
PMCompare(k, e, st, run) ==
    IF TargetReached(e)
    THEN IF ~e.loop
         THEN \* active = False; await self._save_config()
              /\ ev' = Stopped(e)
              /\ evStore' = st
              /\ pm' = [pm EXCEPT ![k] = [pc |-> "cfg_get", doc |-> <<>>]]
              /\ evRun' = run
         ELSE \* next target; await self._save_state(force=True)
              \E tgt \in NextTargets(e) :
                  LET e1 == [e EXCEPT !.current_count = 0, !.target_count = tgt]
                  IN /\ ev' = e1
                     /\ evStore' = st
                     /\ pm' = [pm EXCEPT ![k] = [pc |-> "save2", doc |-> <<StateDoc(e1)>>]]
                     /\ evRun' = run
    ELSE \* return False
         /\ ev' = e
         /\ evStore' = st
         /\ pm' = [pm EXCEPT ![k] = [pc |-> "idle", doc |-> <<>>]]
         /\ evRun' = Returned(run, k, FALSE)

\* process_message up to its first await (lines 114-124), as it acts on the
\* manager and its store
PMEnter(k) ==
    LET run == [evRun EXCEPT !.overlapped = @ \/ ~Quiescent,
                                !.armed = @ /\ is_paused(ev, now),
                               !.rerollTask = IF evRun.armed /\ ~is_paused(ev, now)
                                              THEN k ELSE @]
    IN IF ~ev.active \/ is_paused(ev, now)
       THEN /\ evRun' = Returned(run, k, FALSE)
            /\ pm' = [pm EXCEPT ![k] = [pc |-> "idle", doc |-> <<>>]]
            /\ UNCHANGED <<ev, evStore>>
       ELSE LET e == [ev EXCEPT !.current_count = @ + 1]
            IN IF SavesState(e, FALSE)
               THEN /\ ev' = e
                    /\ pm' = [pm EXCEPT ![k] = [pc |-> "save1", doc |-> <<StateDoc(e)>>]]
                    /\ evRun' = run
                    /\ UNCHANGED evStore
               ELSE PMCompare(k, e, evStore, run)

\* a process_message call of a handler that was not suspended before it
PMCall(k) ==
    /\ pm[k].pc = "idle"
    /\ PMEnter(k)

\* a handler calls process_message
PMStart(k) ==
    /\ Calls < (IF evRun.sets = 0 THEN MaxBootPM ELSE evRun.target + MaxOver)
    /\ PMCall(k)
    /\ UNCHANGED <<now, notEvent>>

\* the awaited save_event_state of line 124 completes
PMSaved1(k) ==
    /\ pm[k].pc = "save1"
    /\ PMCompare(k, ev, [evStore EXCEPT !.state = pm[k].doc], evRun)
    /\ UNCHANGED <<now, notEvent>>

\* _save_config: the awaited get_reward_settings completes, the interval
\* document is built from the fields as they are now (lines 48-56)
PMConfigRead(k) ==
    /\ pm[k].pc = "cfg_get"
    /\ pm' = [pm EXCEPT ![k] = [pc |-> "cfg_save", doc |-> <<IntervalDoc(ev)>>]]
    /\ UNCHANGED <<now, notEvent, ev, evStore, evRun>>

\* _save_config: save_reward_settings completes; _save_state(force=True) starts
PMConfigSaved(k) ==
    /\ pm[k].pc = "cfg_save"
    /\ evStore' = [evStore EXCEPT !.interval = pm[k].doc]
    /\ pm' = [pm EXCEPT ![k] = [pc |-> "save2", doc |-> <<StateDoc(ev)>>]]
    /\ UNCHANGED <<now, notEvent, ev, evRun>>

\* the forced save completes; return True
PMSaved2(k) ==
    /\ pm[k].pc = "save2"
    /\ evStore' = [evStore EXCEPT !.state = pm[k].doc]
    /\ pm' = [pm EXCEPT ![k] = [pc |-> "idle", doc |-> <<>>]]
    /\ evRun' = Returned(evRun, k, TRUE)
    /\ UNCHANGED <<now, notEvent, ev>>

\* a new run of calls begins
NewRun(e) ==
    [ sets |-> evRun.sets + 1, done |-> 0, trues |-> 0, lastRet |-> FALSE,
      target |-> e.target_count,
      undisturbed |-> Quiescent /\ ~is_paused(e, now), overlapped |-> FALSE,
      unsettled |-> evRun.unsettled, armed |-> FALSE, rerollTask |-> 0,
      rerollFailed |-> evRun.rerollFailed, restarts |-> evRun.restarts,
      stopped |-> FALSE, granted |-> evRun.granted ]

Disturbed == [evRun EXCEPT !.undisturbed = FALSE]

\* stop_event ends what a re-roll was waiting for
Disarmed == [Disturbed EXCEPT !.armed = FALSE, !.rerollTask = 0]

\* start_event(min_val, max_val, loop), with both saves
StartEvent(lo, hi, lp) ==
    /\ evRun.sets < MaxSets
    /\ \E tgt \in lo..hi :
         LET e == [ev EXCEPT !.active = TRUE, !.mode = "random", !.loop = lp,
                             !.min_target = lo, !.max_target = hi,
                             !.target_count = tgt, !.current_count = 0]
         IN /\ ev' = e
            /\ evStore' = [interval |-> <<IntervalDoc(e)>>, state |-> <<StateDoc(e)>>]
            /\ evRun' = NewRun(e)
    /\ UNCHANGED <<now, notEvent, pm>>

\* set_fixed(count, loop), with both saves
SetFixed(count, lp) ==
    /\ evRun.sets < MaxSets
    /\ LET e == [ev EXCEPT !.active = TRUE, !.mode = "fixed", !.loop = lp,
                           !.target_count = count, !.current_count = 0]
       IN /\ ev' = e
          /\ evStore' = [interval |-> <<IntervalDoc(e)>>, state |-> <<StateDoc(e)>>]
          /\ evRun' = NewRun(e)
    /\ UNCHANGED <<now, notEvent, pm>>

\* stop_event, with its save
StopEvent ==
    /\ LET e == [ev EXCEPT !.active = FALSE, !.loop = FALSE]
       IN /\ ev' = e
          /\ evStore' = [evStore EXCEPT !.interval = <<IntervalDoc(e)>>]
    /\ evRun' = [Disarmed EXCEPT !.stopped = TRUE]
    /\ UNCHANGED <<now, notEvent, pm>>

\* pause_processing(duration_seconds)
PauseProcessing(d) ==
    /\ ev' = [ev EXCEPT !.paused_until = now + d]
    /\ evRun' = Disturbed
    /\ UNCHANGED <<now, notEvent, evStore, pm>>

\* unpause
Unpause ==
    /\ ev' = [ev EXCEPT !.paused_until = 0]
    /\ evRun' = Disturbed
    /\ UNCHANGED <<now, notEvent, evStore, pm>>

\* group_handler after a trigger: the winner is eligible and is rewarded
WinnerEligible ==
    /\ evRun.unsettled > 0
    /\ evRun' = [evRun EXCEPT !.unsettled = @ - 1, !.granted = TRUE]
    /\ UNCHANGED <<now, notEvent, ev, evStore, pm>>

\* mutant of Rewound: the counter is rewound one short
Rewound_short(e) == [e EXCEPT !.current_count = e.target_count - 2]

\* event_manager.current_count = event_manager.target_count - 1
Rewound(e) == [e EXCEPT !.current_count = e.target_count - 1]

\* group_handler after a trigger: the winner is not eligible, re-roll:
\* event_manager.current_count = event_manager.target_count - 1
WinnerIneligible ==
    /\ evRun.unsettled > 0
    /\ ev' = Rewound(ev)
    /\ evRun' = [Disturbed EXCEPT !.unsettled = @ - 1, !.armed = TRUE]
    /\ UNCHANGED <<now, notEvent, evStore, pm>>

\* a qualifying message of a sender who is not eligible, while a looping
\* event runs: group_handler calls process_message
StarveMessage(k) ==
    /\ evRun.sets > 0
    /\ Calls < evRun.target + MaxOver
    /\ evRun.unsettled < MaxOver
    /\ PMCall(k)
    /\ UNCHANGED <<now, notEvent>>

\* the winner of a trigger is not eligible: the re-roll, from which the calls
\* are counted anew, one of them being due before the next trigger
RerollAgain ==
    /\ evRun.unsettled > 0
    /\ ev' = Rewound(ev)
    /\ evRun' = [evRun EXCEPT !.unsettled = @ - 1, !.armed = TRUE, !.rerollTask = 0,
                              !.done = 0, !.trues = 0, !.lastRet = FALSE,
                              !.target = 1,
                              !.undisturbed = FALSE, !.overlapped = ~Quiescent]
    /\ UNCHANGED <<now, notEvent, evStore, pm>>

\* the fields of a new EventManager(db); main() does not call reload
Constructed ==
    [ mode |-> "random", min_target |-> DefaultMin, max_target |-> DefaultMax,
      target_count |-> 0, current_count |-> 0, active |-> TRUE,
      loop |-> TRUE, paused_until |-> 0 ]

\* the documents a store write in flight may have left behind
MaybeWritten(old, pcs) ==
    {old} \cup {pm[k].doc : k \in {j \in Tasks : pm[j].pc \in pcs}}

\* the process is restarted: the handlers in flight end with it, each store
\* write they were awaiting has reached the store or not, and the module
\* level of main.py builds a new EventManager
EventRestart ==
    /\ evRun.sets > 0
    /\ evRun.restarts < MaxRestarts
    /\ ev' = Constructed
    /\ pm' = [k \in Tasks |-> [pc |-> "idle", doc |-> <<>>]]
    /\ \E i \in MaybeWritten(evStore.interval, {"cfg_save"}),
          st \in MaybeWritten(evStore.state, {"save1", "save2"}) :
            evStore' = [interval |-> i, state |-> st]
    /\ evRun' = [evRun EXCEPT !.restarts = @ + 1, !.done = 0, !.trues = 0,
                              !.lastRet = FALSE, !.target = 0,
                              !.undisturbed = FALSE, !.overlapped = FALSE,
                              !.armed = FALSE, !.rerollTask = 0, !.stopped = FALSE]
    /\ UNCHANGED <<now, notEvent>>

EventTick ==
    /\ now < MaxNow
    /\ now' = now + 1
    /\ UNCHANGED <<notEvent, eventVars>>

\* inputs of the admin commands
FixedCounts == {2, 10}
RandomRanges == {<<2, 3>>}
PauseSeconds == {1}

EventNext ==
    \/ \E k \in Tasks : PMStart(k)
    \/ \E k \in Tasks : PMSaved1(k)
    \/ \E k \in Tasks : PMConfigRead(k)
    \/ \E k \in Tasks : PMConfigSaved(k)
    \/ \E k \in Tasks : PMSaved2(k)
    \/ \E r \in RandomRanges, lp \in BOOLEAN : StartEvent(r[1], r[2], lp)
    \/ \E c \in FixedCounts, lp \in BOOLEAN : SetFixed(c, lp)
    \/ StopEvent
    \/ \E d \in PauseSeconds : PauseProcessing(d)
    \/ Unpause
    \/ EventTick

\* the EventManager driven by group_handler, which settles every winner
RerollNext ==
    \/ EventNext
    \/ WinnerEligible
    \/ WinnerIneligible

\* a looping event is started
LoopingStart ==
    \/ \E r \in RandomRanges : StartEvent(r[1], r[2], TRUE)
    \/ \E c \in FixedCounts : SetFixed(c, TRUE)

\* the EventManager when every winner is ineligible; loop stays True, so
\* process_message never reaches _save_config
StarveNext ==
    \/ LoopingStart
    \/ \E k \in Tasks : StarveMessage(k)
    \/ \E k \in Tasks : PMSaved1(k)
    \/ \E k \in Tasks : PMSaved2(k)
    \/ RerollAgain

\* the EventManager across a restart of the process
RestartNext ==
    \/ EventNext
    \/ EventRestart

(***************************************************************************)
(* MilestoneManager (src/core/milestones.py) and the commands of main.py   *)
(* that drive it.  One tick of the clock is one hour.                      *)
(***************************************************************************)
\* config['milestones']['events']: threshold -> details
Thresholds == {1, 2, 3}
EventDetails == [m \in Thresholds |-> [duration_hours |-> IF m = 1 THEN 1 ELSE 2,
                                       multiplier |-> 2, jackpot_chance |-> 10]]
MemberCounts == 0..3

NoEvent == [active |-> FALSE, end_time |-> 0, milestone |-> 0,
            multiplier |-> 1, jackpot_chance |-> 5]

\* get_active_bonus without an active event
NeutralBonus == [active |-> FALSE, multiplier |-> 1, jackpot_chance |-> 0]

\* the milestones section as configured, nothing triggered yet
MilestoneInit ==
    /\ msStore = [active_event |-> NoEvent, last_triggered |-> 0]
    /\ msConf = msStore
    /\ msFired = {}
    /\ msRefired = FALSE
    /\ msBonus = [read |-> FALSE, late |-> FALSE, bonus |-> NeutralBonus]
    /\ msErr = FALSE

\* mutant of SetMin: the largest element
SetMin_max(S) == CHOOSE m \in S : \A x \in S : m >= x

\* the first element of sorted(...)
SetMin(S) == CHOOSE m \in S : \A x \in S : m <= x

\* check_milestone(current_count): <<triggered, milestone>>, milestone 0 for None
check_milestone(conf, count) ==
    IF conf.active_event.active
    THEN [triggered |-> FALSE, milestone |-> 0]
    ELSE LET crossed == {m \in Thresholds : count >= m /\ m > conf.last_triggered}
         IN IF crossed = {}
            THEN [triggered |-> FALSE, milestone |-> 0]
            ELSE [triggered |-> TRUE, milestone |-> SetMin(crossed)]

\* self.save_callback(self.config): main.py's save_config_callback is an
\* async function and _save does not await it, so its body (db.save_config)
\* never runs and the store keeps its document
save_callback(store, conf) == store

\* activate_event(milestone): the configuration it leaves in memory
activate_event(conf, milestone, t) ==
    [conf EXCEPT !.active_event =
                     [active |-> TRUE,
                      end_time |-> t + EventDetails[milestone].duration_hours,
                      milestone |-> milestone,
                      multiplier |-> EventDetails[milestone].multiplier,
                      jackpot_chance |-> EventDetails[milestone].jackpot_chance],
                 !.last_triggered = milestone]

\* check_expiry(): the configuration it leaves in memory
check_expiry(conf, t) ==
    IF conf.active_event.active /\ t > conf.active_event.end_time
    THEN [conf EXCEPT !.active_event = NoEvent]
    ELSE conf

\* milestone_cmd / setmilestone_cmd: check_expiry, check_milestone and, when
\* it triggers, activate_event
CheckThenActivate(count) ==
    LET c1 == check_expiry(msConf, now)
        s1 == IF c1 # msConf THEN save_callback(msStore, c1) ELSE msStore
        r == check_milestone(c1, count)
    IN IF r.triggered
       THEN /\ msConf' = activate_event(c1, r.milestone, now)
            /\ msStore' = save_callback(s1, msConf')
            /\ msFired' = msFired \cup {r.milestone}
            /\ msRefired' = (msRefired \/ r.milestone \in msFired)
       ELSE /\ msConf' = c1
            /\ msStore' = s1
            /\ UNCHANGED <<msFired, msRefired>>

\* get_active_bonus(): the stored window, whatever the time
get_active_bonus(conf) ==
    IF conf.active_event.active
    THEN [active |-> TRUE, multiplier |-> conf.active_event.multiplier,
          jackpot_chance |-> conf.active_event.jackpot_chance]
    ELSE NeutralBonus

\* calculate_reward(user_id): ms_bonus = milestone_manager.get_active_bonus()
CalculateReward ==
    /\ msBonus' = [read |-> TRUE,
                   late |-> msConf.active_event.active
                            /\ now > msConf.active_event.end_time,
                   bonus |-> get_active_bonus(msConf)]
    /\ UNCHANGED <<now, notMilestone, msConf, msStore, msFired, msRefired, msErr>>

\* /milestone with the member count of the target group
MilestoneCmd(count) ==
    /\ CheckThenActivate(count)
    /\ UNCHANGED <<now, notMilestone, msBonus, msErr>>

\* /setmilestone <count>
SetMilestoneCmd(count) ==
    /\ CheckThenActivate(count)
    /\ UNCHANGED <<now, notMilestone, msBonus, msErr>>

\* any admin command that ends in await save_config(config): the whole
\* configuration, the milestones section included, goes to the store
AdminSaveConfig ==
    /\ msStore' = msConf
    /\ UNCHANGED <<now, notMilestone, msConf, msFired, msRefired, msBonus, msErr>>

\* the process restarts: config = db.get_config(), MilestoneManager(config, ...)
MilestoneRestart ==
    /\ msConf' = msStore
    /\ UNCHANGED <<now, notMilestone, msStore, msFired, msRefired, msBonus, msErr>>

\* /reload: milestone_manager.config = config fetched from the store
ReloadCmd ==
    /\ msConf' = msStore
    /\ UNCHANGED <<now, notMilestone, msStore, msFired, msRefired, msBonus, msErr>>

\* an events section in which the entry of threshold 2 has no multiplier
MalformedDetails ==
    [m \in Thresholds |->
        IF m = 2 THEN [duration_hours |-> 2, jackpot_chance |-> 10]
        ELSE EventDetails[m]]

\* the keys activate_event subscripts in the entry
DetailKeys == {"duration_hours", "multiplier", "jackpot_chance"}

\* activate_event(milestone) on the events section events: details[...] of
\* a missing key raises KeyError before active_event and last_triggered are
\* assigned
activate_event_on(events, conf, milestone, t) ==
    IF DetailKeys \subseteq DOMAIN events[milestone]
    THEN [raised |-> FALSE,
          conf |-> [conf EXCEPT !.active_event =
                       [active |-> TRUE,
                        end_time |-> t + events[milestone].duration_hours,
                        milestone |-> milestone,
                        multiplier |-> events[milestone].multiplier,
                        jackpot_chance |-> events[milestone].jackpot_chance],
                    !.last_triggered = milestone]]
    ELSE [raised |-> TRUE, conf |-> conf]

\* /setmilestone <count> with the events section events: check_expiry,
\* check_milestone and activate_event run outside any try
SetMilestoneCmdOn(events, count) ==
    /\ LET c1 == check_expiry(msConf, now)
           s1 == IF c1 # msConf THEN save_callback(msStore, c1) ELSE msStore
           r == check_milestone(c1, count)
       IN IF r.triggered
          THEN LET a == activate_event_on(events, c1, r.milestone, now)
               IN /\ msConf' = a.conf
                  /\ msStore' = IF a.raised THEN s1 ELSE save_callback(s1, a.conf)
                  /\ msErr' = (msErr \/ a.raised)
                  /\ msFired' = IF a.raised THEN msFired ELSE msFired \cup {r.milestone}
                  /\ msRefired' = (msRefired \/ (~a.raised /\ r.milestone \in msFired))
          ELSE /\ msConf' = c1
               /\ msStore' = s1
               /\ UNCHANGED <<msFired, msRefired, msErr>>
    /\ UNCHANGED <<now, notMilestone, msBonus>>

MilestoneTick ==
    /\ now < MaxHours
    /\ now' = now + 1
    /\ UNCHANGED <<notMilestone, milestoneVars>>

MilestoneNext ==
    \/ \E c \in MemberCounts : MilestoneCmd(c)
    \/ \E c \in MemberCounts : SetMilestoneCmd(c)
    \/ AdminSaveConfig
    \/ MilestoneRestart
    \/ ReloadCmd
    \/ CalculateReward
    \/ MilestoneTick

\* the commands on a configuration with a malformed threshold entry
MalformedNext ==
    \/ \E c \in MemberCounts : SetMilestoneCmdOn(MalformedDetails, c)
    \/ AdminSaveConfig
    \/ MilestoneRestart
    \/ CalculateReward
    \/ MilestoneTick

(***************************************************************************)
(* WriteQueue (src/core/write_queue.py).  Neither critical section awaits  *)
(* anything, so the lock is free whenever a task asks for it:              *)
(* increment_stat and the snapshot-and-clear of _flush are single steps.   *)
(* _flush is suspended at each bulk_write, and the loop at its sleep.      *)
(***************************************************************************)
\* (collection, filter, field)
WqKeys == { [collection |-> "users", filter |-> "u1", field |-> "msg_count"],
            [collection |-> "users", filter |-> "u2", field |-> "msg_count"],
            [collection |-> "daily_stats", filter |-> "u1", field |-> "count"] }

ZeroPerKey == [k \in WqKeys |-> 0]

\* WriteQueue.__init__; the store starts with no counter applied
QueueInit ==
    /\ wqBuf = <<>>
    /\ wq = [pc |-> "none", owed |-> <<>>]
    /\ wqStore = ZeroPerKey
    /\ wqG = [ calls |-> 0, sinceSwap |-> ZeroPerKey, merged |-> ZeroPerKey,
              handed |-> <<>>, returned |-> FALSE, ok |-> TRUE,
              interleaved |-> FALSE, lost |-> ZeroPerKey,
              issued |-> ZeroPerKey, failed |-> FALSE ]

HasKey(buf, key) == \E i \in 1..Len(buf) : buf[i].key = key

\* amount buffered for the key
Buffered(buf, key) ==
    IF HasKey(buf, key)
    THEN (CHOOSE e \in {buf[i] : i \in 1..Len(buf)} : e.key = key).amount
    ELSE 0

\* mutant of Merge: the amount replaces what is buffered
Merge_overwrite(buf, key, amount) ==
    IF HasKey(buf, key)
    THEN [i \in 1..Len(buf) |->
             IF buf[i].key = key THEN [buf[i] EXCEPT !.amount = amount] ELSE buf[i]]
    ELSE Append(buf, [key |-> key, amount |-> amount])

\* self._stat_increments[key]['amount'] += amount
Merge(buf, key, amount) ==
    IF HasKey(buf, key)
    THEN [i \in 1..Len(buf) |->
             IF buf[i].key = key THEN [buf[i] EXCEPT !.amount = @ + amount] ELSE buf[i]]
    ELSE Append(buf, [key |-> key, amount |-> amount])

\* mutant of AfterSnapshot: the buffer is not cleared
AfterSnapshot_kept(buf) == buf

\* self._stat_increments.clear()
AfterSnapshot(buf) == <<>>

\* mutant of NothingBuffered: a single buffered key is not worth a flush
NothingBuffered_one(buf) == Len(buf) <= 1

\* if not self._stat_increments: return
NothingBuffered(buf) == buf = <<>>

\* the collections of the snapshot, in the order they first appear
RECURSIVE CollectionsOf(_)
CollectionsOf(snap) ==
    IF snap = <<>> THEN <<>>
    ELSE LET c == snap[1].key.collection
         IN <<c>> \o CollectionsOf(SelectSeq(snap, LAMBDA e : e.key.collection # c))

\* mutant of by_collection: only the first collection is written
by_collection_first(snap) ==
    LET colls == CollectionsOf(snap)
    IN [i \in 1..1 |->
           [coll |-> colls[i],
            ops |-> SelectSeq(snap, LAMBDA e : e.key.collection = colls[i])]]

\* by_collection: one UpdateOne per snapshot entry, grouped by collection
by_collection(snap) ==
    LET colls == CollectionsOf(snap)
    IN [i \in 1..Len(colls) |->
           [coll |-> colls[i],
            ops |-> SelectSeq(snap, LAMBDA e : e.key.collection = colls[i])]]

RECURSIVE Applied(_, _, _)
\* mutant of Applied: every op is applied twice
Applied_twice(store, ops, idx) ==
    IF idx = {} THEN store
    ELSE LET i == CHOOSE j \in idx : TRUE
         IN Applied([store EXCEPT ![ops[i].key] = @ + 2 * ops[i].amount], ops, idx \ {i})

\* the store after the ops at the positions idx of a bulk write were applied
Applied(store, ops, idx) ==
    IF idx = {} THEN store
    ELSE LET i == CHOOSE j \in idx : TRUE
         IN Applied([store EXCEPT ![ops[i].key] = @ + ops[i].amount], ops, idx \ {i})

\* key -> amount the ops of the bulk writes in owed carry
RECURSIVE OwedAmount(_, _)
OwedAmount(owed, key) ==
    IF owed = <<>> THEN 0
    ELSE Buffered(owed[1].ops, key) + OwedAmount(Tail(owed), key)

\* mutant of Remaining: an exception ends the flush
Remaining_abort(owed, raised) == IF raised THEN <<>> ELSE Tail(owed)

\* the for loop of _flush goes on to the next collection, the exception of a
\* bulk write being caught inside it
Remaining(owed, raised) == Tail(owed)

\* start(): the flush loop task is created once
WqStart ==
    /\ wq.pc = "none"
    /\ wq' = [wq EXCEPT !.pc = "sleep"]
    /\ UNCHANGED <<now, notQueue, wqBuf, wqStore, wqG>>

\* increment_stat(collection, filter_doc, field, amount)
IncrementStat(key, amount) ==
    /\ wq.pc # "stopped"
    /\ wqG.calls < MaxIncs
    /\ wqBuf' = Merge(wqBuf, key, amount)
    /\ wqG' = [wqG EXCEPT !.calls = @ + 1, !.sinceSwap[key] = @ + 1,
                          !.issued[key] = @ + amount,
                          !.returned = FALSE,
                          !.interleaved = @ \/ wq.pc = "write"]
    /\ UNCHANGED <<now, notQueue, wq, wqStore>>

\* the sleep of _flush_loop ends and _flush runs up to its first bulk_write
\* (or returns at once on an empty buffer)
FlushBegins ==
    /\ wq.pc = "sleep"
    /\ IF NothingBuffered(wqBuf)
       THEN /\ wqG' = [wqG EXCEPT !.merged = ZeroPerKey, !.handed = <<>>,
                                 !.returned = TRUE, !.ok = TRUE,
                                 !.interleaved = FALSE]
            /\ UNCHANGED <<wqBuf, wq>>
       ELSE LET owed == by_collection(wqBuf)
            IN /\ wqBuf' = AfterSnapshot(wqBuf)
               /\ wq' = [pc |-> "write", owed |-> owed]
               /\ wqG' = [wqG EXCEPT !.merged = wqG.sinceSwap,
                                    !.sinceSwap = ZeroPerKey,
                                    !.handed = owed[1].ops,
                                    !.returned = FALSE, !.ok = TRUE,
                                    !.interleaved = FALSE]
    /\ UNCHANGED <<now, notQueue, wqStore>>

\* the awaited bulk_write(ops, ordered=False) ends: without an exception all
\* its ops are applied, with one (logged by _flush) any part of them may be;
\* _flush goes on to the next collection or returns to the loop
BulkWriteEnds(raised, idx) ==
    /\ wq.pc = "write"
    /\ idx \subseteq 1..Len(wq.owed[1].ops)
    /\ ~raised => idx = 1..Len(wq.owed[1].ops)
    /\ wqStore' = Applied(wqStore, wq.owed[1].ops, idx)
    /\ LET rest == Remaining(wq.owed, raised)
       IN IF rest = <<>>
          THEN /\ wq' = [pc |-> "sleep", owed |-> <<>>]
               /\ wqG' = [wqG EXCEPT !.returned = TRUE, !.ok = @ /\ ~raised,
                                     !.failed = @ \/ raised]
          ELSE /\ wq' = [wq EXCEPT !.owed = rest]
               /\ wqG' = [wqG EXCEPT !.handed = @ \o rest[1].ops, !.ok = @ /\ ~raised,
                                     !.failed = @ \/ raised]
    /\ UNCHANGED <<now, notQueue, wqBuf>>

\* the loop task is cancelled (asyncio.run cancels it when main() ends):
\* CancelledError is raised at the await the task is suspended in and caught
\* by _flush_loop, which breaks.  A bulk write in flight may or may not have
\* reached the store; the writes _flush still owed are never issued
Cancel(idx) ==
    /\ wq.pc \in {"sleep", "write"}
    /\ IF wq.pc = "sleep"
       THEN /\ idx = {}
            /\ UNCHANGED wqStore
            /\ wqG' = [wqG EXCEPT !.returned = FALSE, !.failed = TRUE,
                                  !.lost = [k \in WqKeys |-> Buffered(wqBuf, k)]]
            /\ wq' = [pc |-> "stopped", owed |-> <<>>]
       ELSE /\ idx \subseteq 1..Len(wq.owed[1].ops)
            /\ wqStore' = Applied(wqStore, wq.owed[1].ops, idx)
            /\ wqG' = [wqG EXCEPT !.returned = FALSE, !.failed = TRUE,
                                  !.lost = [k \in WqKeys |->
                                      Buffered(wqBuf, k) + OwedAmount(Tail(wq.owed), k)]]
            /\ wq' = [pc |-> "stopped", owed |-> Tail(wq.owed)]
    /\ UNCHANGED <<now, notQueue, wqBuf>>

Amounts == {1}
OpPositions == 1..Cardinality(WqKeys)    \* positions in the ops of one bulk write

QueueNext ==
    \/ WqStart
    \/ \E k \in WqKeys, a \in Amounts : IncrementStat(k, a)
    \/ FlushBegins
    \/ \E r \in BOOLEAN, idx \in SUBSET OpPositions : BulkWriteEnds(r, idx)
    \/ \E idx \in SUBSET OpPositions : Cancel(idx)

(***************************************************************************)
(* The user cache (src/core/cache.py) in front of the users collection     *)
(* (src/core/storage_mongodb.py).  One tick of the clock is one minute.    *)
(* The cached read db.get_user that main.py calls is not part of the       *)
(* sources; it is modelled as the cache-aside read the specification       *)
(* describes.                                                              *)
(***************************************************************************)
UserTtl == 2             \* user_cache: ttl = 120 seconds

NoStatus == [is_banned |-> FALSE, is_whitelisted |-> FALSE,
             is_penalized |-> FALSE, penalty_expires |-> 0]

\* the users collection and the user cache before the first message
CacheFresh ==
    /\ userStore = [u \in Users |-> NoStatus]
    /\ user_cache = [u \in Users |-> <<>>]
    /\ cacheLast = [op |-> "none", user |-> "u1", value |-> NoStatus,
                    afterWrite |-> FALSE]

\* f'{user_id}' of an int: its decimal digits, with the sign
DigitChars == <<"0", "1", "2", "3", "4", "5", "6", "7", "8", "9">>
RECURSIVE Dec(_)
Dec(n) ==
    IF n < 10 THEN <<DigitChars[n + 1]>>
    ELSE Dec(n \div 10) \o <<DigitChars[(n % 10) + 1]>>
Str(n) == IF n < 0 THEN <<"-">> \o Dec(-n) ELSE Dec(n)

\* the ids, dates and config keys the helpers are called with
UserIds == {1, 11}
GroupIds == {2, 12}
Dates == {<<"d", "1">>, <<"d", "2">>}
ConfigKeys == {<<"a">>, <<"b">>}
UserEntities == UserIds \X GroupIds
StatsEntities == UserIds \X GroupIds \X Dates
TopEntities == GroupIds \X Dates

Sep == <<":">>

\* mutant of user_key: the fields are not separated
user_key_unseparated(user_id, group_id) == <<"u">> \o Str(user_id) \o Str(group_id)

\* the key builders: f'u:{user_id}:{group_id}' and so on
user_key(user_id, group_id) == <<"u">> \o Sep \o Str(user_id) \o Sep \o Str(group_id)
stats_key(user_id, group_id, date) ==
    <<"s">> \o Sep \o Str(user_id) \o Sep \o Str(group_id) \o Sep \o date
top_key(group_id, date) == <<"t">> \o Sep \o Str(group_id) \o Sep \o date
config_key(k) == <<"c", "f", "g">> \o Sep \o k

\* the TTLCache objects as created by the module: nothing cached
ColdCaches ==
    [ user_cache |-> <<>>, config_cache |-> <<>>, stats_cache |-> <<>>,
      elgbl_cache |-> <<>>, top_cache |-> <<>> ]

\* the caches once every entity has been read: each key holds the entity it
\* was built from
UserEntries ==
    [ k \in {user_key(e[1], e[2]) : e \in UserEntities} |->
        CHOOSE e \in UserEntities : user_key(e[1], e[2]) = k ]
WarmCaches ==
    [ user_cache |-> UserEntries,
      elgbl_cache |-> UserEntries,
      stats_cache |-> [ k \in {stats_key(e[1], e[2], e[3]) : e \in StatsEntities} |->
                          CHOOSE e \in StatsEntities : stats_key(e[1], e[2], e[3]) = k ],
      top_cache |-> [ k \in {top_key(e[1], e[2]) : e \in TopEntities} |->
                        CHOOSE e \in TopEntities : top_key(e[1], e[2]) = k ],
      config_cache |-> [ k \in {config_key(c) : c \in ConfigKeys} |->
                           CHOOSE c \in ConfigKeys : config_key(c) = k ] ]

CacheInit == CacheFresh /\ caches = ColdCaches

\* cache.pop(k, None): the entry goes if it is there, nothing is raised
Pop(c, k) == [x \in DOMAIN c \ {k} |-> c[x]]

\* the entry of the user is in the cache and has not expired
Cached(cache, u, t) == cache[u] # <<>> /\ t < cache[u][1].expires

\* the invalidation helpers
invalidate_user(cs, user_id, group_id) ==
    LET k == user_key(user_id, group_id)
    IN  [cs EXCEPT !.user_cache = Pop(@, k), !.elgbl_cache = Pop(@, k)]

invalidate_stats(cs, user_id, group_id, date) ==
    [cs EXCEPT !.stats_cache = Pop(@, stats_key(user_id, group_id, date)),
               !.top_cache = Pop(@, top_key(group_id, date))]

invalidate_config(cs, key) ==
    [cs EXCEPT !.config_cache = Pop(@, config_key(key))]

\* a caller invokes a helper
InvalidateUser(u, g) ==
    /\ caches' = invalidate_user(caches, u, g)
    /\ UNCHANGED <<now, notCache, userStore, user_cache, cacheLast>>

InvalidateStats(u, g, d) ==
    /\ caches' = invalidate_stats(caches, u, g, d)
    /\ UNCHANGED <<now, notCache, userStore, user_cache, cacheLast>>

InvalidateConfig(c) ==
    /\ caches' = invalidate_config(caches, c)
    /\ UNCHANGED <<now, notCache, userStore, user_cache, cacheLast>>

InvalidateNext ==
    \/ \E u \in UserIds, g \in GroupIds : InvalidateUser(u, g)
    \/ \E u \in UserIds, g \in GroupIds, d \in Dates : InvalidateStats(u, g, d)
    \/ \E c \in ConfigKeys : InvalidateConfig(c)

\* db.get_user(user_id, group_id): cache-aside read
GetUser(u) ==
    /\ LET hit == Cached(user_cache, u, now)
           value == IF hit THEN user_cache[u][1].status ELSE userStore[u]
       IN /\ user_cache' = IF hit THEN user_cache
                           ELSE [user_cache EXCEPT ![u] =
                                    <<[status |-> value, expires |-> now + UserTtl]>>]
          /\ cacheLast' = [op |-> "read", user |-> u, value |-> value,
                           afterWrite |-> cacheLast.op = "write" /\ cacheLast.user = u]
    /\ UNCHANGED <<now, notCache, userStore, caches>>

\* a write of the status in the users collection; none of the four methods
\* touches the cache
StatusWrite(u, status) ==
    /\ userStore' = [userStore EXCEPT ![u] = status]
    /\ cacheLast' = [op |-> "write", user |-> u, value |-> status, afterWrite |-> FALSE]
    /\ UNCHANGED <<now, notCache, user_cache, caches>>

\* ban_user(user_id)
BanUser(u) == StatusWrite(u, [userStore[u] EXCEPT !.is_banned = TRUE])

\* unban_user(user_id)
UnbanUser(u) == StatusWrite(u, [userStore[u] EXCEPT !.is_banned = FALSE])

\* whitelist_user(user_id)
WhitelistUser(u) == StatusWrite(u, [userStore[u] EXCEPT !.is_whitelisted = TRUE])

\* unwhitelist_user(user_id)
UnwhitelistUser(u) == StatusWrite(u, [userStore[u] EXCEPT !.is_whitelisted = FALSE])

CacheTick ==
    /\ now < MaxNow
    /\ now' = now + 1
    /\ UNCHANGED <<notCache, cacheVars>>

CacheNext ==
    \/ \E u \in Users : GetUser(u)
    \/ \E u \in Users : BanUser(u)
    \/ \E u \in Users : UnbanUser(u)
    \/ \E u \in Users : WhitelistUser(u)
    \/ \E u \in Users : UnwhitelistUser(u)
    \/ CacheTick

(***************************************************************************)
(* group_handler (src/main.py), from the arrival of a group message to the *)
(* end of its spam processing.  A message that passes goes on, after the   *)
(* awaited add_user_message_bulk, to the process_message call modelled by  *)
(* PMStart.  The status documents of this model carry no penalty, so the   *)
(* penalty check of the handler lets every sender through.                 *)
(***************************************************************************)
\* what became of the message
Outcomes == {"none", "paused", "banned", "penalized", "flood_pause", "ignored", "raised",
             "passed", "command", "media", "qualified"}

\* the spam kinds that set ignore_until for the sender
UserKinds == {"stickers", "burst", "duplicate", "lowquality"}

PipelineInit ==
    /\ handled = [n |-> 0, user |-> "u1", res |-> Allow, stored |-> NoStatus,
                  wasPaused |-> FALSE, out |-> "none"]
    /\ gate = [msg |-> [text |-> TxtEmpty, media |-> FALSE], status |-> NoStatus, task |-> 0]
    /\ replied = [cmd |-> "none", lo |-> 0, hi |-> 0]

\* the outcome of the screening, given the is_spam result res, the status
\* read through the cache and whether the system is paused:
\*   if event_manager.is_paused(): return
\*   if is_banned: return
\*   if spam_type == "global_flood": pause_processing(duration) ... return
\*   elif spam_type: if spam_type is True or await spam_detector.is_ignored(user_id)
\*   if is_banned or is_penalized: return
\* is_ignored is a plain function returning a bool, so the await raises
\* TypeError whenever it is reached; a penalty that has expired is removed
\* from the store, the handler going on with is_penalized still set
Screen(res, status, paused, t) ==
    IF paused THEN "paused"
    ELSE IF status.is_banned THEN "banned"
    ELSE IF status.is_penalized /\ ~(status.penalty_expires < t) THEN "penalized"
    ELSE IF res = "global_flood" THEN "flood_pause"
    ELSE IF res = AlreadyIgnored THEN "ignored"
    ELSE IF res # Allow THEN "raised"
    ELSE IF status.is_penalized THEN "penalized"
    ELSE "passed"

\* group_handler(event) for a message msg of user u: is_spam is called
\* without is_whitelisted, next to the cached read of the user
GroupHandler(u, msg) ==
    /\ last.n < MaxCalls
    /\ SpamCall(u, msg, FALSE)
    /\ LET hit == Cached(user_cache, u, now)
           status == IF hit THEN user_cache[u][1].status ELSE userStore[u]
           out == Screen(last'.res, status, is_paused(ev, now), now)
       IN /\ user_cache' = IF hit THEN user_cache
                           ELSE [user_cache EXCEPT ![u] =
                                    <<[status |-> status, expires |-> now + UserTtl]>>]
          /\ cacheLast' = [op |-> "read", user |-> u, value |-> status,
                           afterWrite |-> cacheLast.op = "write" /\ cacheLast.user = u]
          /\ handled' = [n |-> handled.n + 1, user |-> u, res |-> last'.res,
                         stored |-> userStore[u],
                         wasPaused |-> is_paused(ev, now), out |-> out]
          /\ IF out = "flood_pause"
             THEN \E d \in PauseSeconds :
                     /\ ev' = [ev EXCEPT !.paused_until = now + d]
                     /\ evRun' = Disturbed
             ELSE UNCHANGED <<ev, evRun>>
    /\ UNCHANGED <<now, cfg, solo, evStore, pm, milestoneVars, queueVars, userStore, caches,
                   gate, replied>>

\* the user the admin commands of this component are about
Moderated == {"u1"}

\* event.text.startswith('/')
IsCommand(text) == Len(text) > 0 /\ text[1] = "/"

TxtCmd == <<"/", "a">>

\* the messages of the group: a text, a command and a sticker
GroupMessages ==
    { [text |-> TxtHi, media |-> FALSE], [text |-> TxtCmd, media |-> FALSE],
      [text |-> TxtEmpty, media |-> TRUE] }

\* what the handler does with a message that came through the screening:
\*   if event.text.startswith('/'): ... return
\*   if is_media: return
\*   await db.add_user_message_bulk(user_id, group_id)
Gate(out, msg) ==
    IF out # "passed" THEN out
    ELSE IF IsCommand(msg.text) THEN "command"
    ELSE IF msg.media THEN "media"
    ELSE "qualified"

\* the penalty check finds an expired penalty: await db.remove_penalty_v2
ClearsPenalty(status, paused, t) ==
    ~paused /\ ~status.is_banned /\ status.is_penalized /\ status.penalty_expires < t

\* remove_penalty
Unpenalized(status) == [status EXCEPT !.is_penalized = FALSE, !.penalty_expires = 0]

\* the counter add_user_message_bulk increments
TallyKey(u) == [collection |-> "users", filter |-> u, field |-> "msg_count"]

PenaltyTicks == 1

\* add_penalty(user_id, duration_minutes, reason)
PenalizeUser(u) ==
    StatusWrite(u, [userStore[u] EXCEPT !.is_penalized = TRUE,
                                        !.penalty_expires = now + PenaltyTicks])

\* the task that takes the next message: the first one that is idle
FreeTask ==
    IF \E k \in Tasks : pm[k].pc = "idle"
    THEN CHOOSE k \in Tasks : pm[k].pc = "idle" /\ \A j \in Tasks : pm[j].pc = "idle" => k <= j
    ELSE 0

\* group_handler(event) for a message msg of user u, run by task k, from the
\* arrival of the message to the await of add_user_message_bulk: the tally
\* of a qualifying message is buffered and process_message comes next
QualifyHandler(u, msg, k) ==
    /\ last.n < MaxCalls
    /\ evRun.sets > 0
    /\ k = FreeTask
    /\ SpamCall(u, msg, FALSE)
    /\ LET hit == Cached(user_cache, u, now)
           status == IF hit THEN user_cache[u][1].status ELSE userStore[u]
           paused == is_paused(ev, now)
           out == Gate(Screen(last'.res, status, paused, now), msg)
       IN /\ user_cache' = IF hit THEN user_cache
                           ELSE [user_cache EXCEPT ![u] =
                                    <<[status |-> status, expires |-> now + UserTtl]>>]
          /\ cacheLast' = [op |-> "read", user |-> u, value |-> status,
                           afterWrite |-> cacheLast.op = "write" /\ cacheLast.user = u]
          /\ userStore' = IF ClearsPenalty(status, paused, now)
                          THEN [userStore EXCEPT ![u] = Unpenalized(@)]
                          ELSE userStore
          /\ handled' = [n |-> handled.n + 1, user |-> u, res |-> last'.res,
                         stored |-> userStore[u], wasPaused |-> paused, out |-> out]
          /\ gate' = [msg |-> msg, status |-> status, task |-> k]
          /\ IF out = "flood_pause"
             THEN \E d \in PauseSeconds :
                     /\ ev' = [ev EXCEPT !.paused_until = now + d]
                     /\ evRun' = Disturbed
             ELSE UNCHANGED <<ev, evRun>>
          /\ IF out = "qualified"
             THEN /\ wqBuf' = Merge(wqBuf, TallyKey(u), 1)
                  /\ pm' = [pm EXCEPT ![k] = [pc |-> "bulk", doc |-> <<>>]]
             ELSE UNCHANGED <<wqBuf, pm>>
    /\ UNCHANGED <<now, cfg, solo, evStore, milestoneVars, wq, wqStore, wqG, caches, replied>>

\* add_user_message_bulk has returned: await event_manager.process_message()
Counted(k) ==
    /\ pm[k].pc = "bulk"
    /\ PMEnter(k)
    /\ UNCHANGED <<now, notEvent>>

\* group_handler from the messages of the moderated user to their rewards;
\* the targets stay below SaveEvery, so no call waits in the save of line 124
QualifyNext ==
    \/ \E u \in Moderated, m \in GroupMessages, k \in Tasks : QualifyHandler(u, m, k)
    \/ \E k \in Tasks : Counted(k)
    \/ \E k \in Tasks : PMSaved2(k)
    \/ WinnerEligible
    \/ WinnerIneligible
    \/ \E r \in RandomRanges : StartEvent(r[1], r[2], TRUE)
    \/ \E u \in Moderated : BanUser(u)
    \/ \E u \in Moderated : PenalizeUser(u)
    \/ SpamTick

(***************************************************************************)
(* The admin commands of the EventManager (src/main.py).  stop_event,      *)
(* start_event and set_fixed are coroutine functions; the commands call    *)
(* them without await, which creates the coroutine and drops it.           *)
(***************************************************************************)
\* the manager after a coroutine function was called and its result dropped:
\* the body has not run
Dropped(e, after) == e

\* a command has replied: the calls and triggers are counted from here
Replied(c, lo, hi) ==
    /\ replied' = [cmd |-> c, lo |-> lo, hi |-> hi]
    /\ evRun' = NewRun(ev')
    /\ UNCHANGED <<now, spamVars, milestoneVars, queueVars, cacheVars, handled, gate,
                   evStore, pm>>

\* /stopevent
StopEventCmd ==
    /\ evRun.sets < MaxSets
    /\ IF ~ev.active
       THEN ev' = ev /\ Replied("already_stopped", 0, 0)
       ELSE /\ ev' = Dropped(ev, [ev EXCEPT !.active = FALSE, !.loop = FALSE])
            /\ Replied("stopped", 0, 0)

\* /startevent
StartEventCmd ==
    /\ evRun.sets < MaxSets
    /\ IF ev.active
       THEN ev' = ev /\ Replied("already_running", 0, 0)
       ELSE \E tgt \in DefaultMin..DefaultMax :
              /\ ev' = Dropped(ev, [ev EXCEPT !.active = TRUE, !.mode = "random",
                                              !.loop = TRUE,
                                              !.min_target = DefaultMin,
                                              !.max_target = DefaultMax,
                                              !.target_count = tgt,
                                              !.current_count = 0])
              /\ Replied("started", DefaultMin, DefaultMax)

\* /setinterval A B: random interval
SetIntervalRandom(lo, hi) ==
    /\ evRun.sets < MaxSets
    /\ \E tgt \in lo..hi :
         ev' = Dropped(ev, [ev EXCEPT !.active = TRUE, !.mode = "random", !.loop = TRUE,
                                     !.min_target = lo, !.max_target = hi,
                                     !.target_count = tgt, !.current_count = 0])
    /\ Replied("random", lo, hi)

\* /setinterval N: fixed interval
SetIntervalFixed(count) ==
    /\ evRun.sets < MaxSets
    /\ ev' = Dropped(ev, [ev EXCEPT !.active = TRUE, !.mode = "fixed", !.loop = TRUE,
                                    !.target_count = count, !.current_count = 0])
    /\ Replied("fixed", count, count)

\* the commands and the qualifying messages; with loop and active left as
\* constructed, process_message never reaches _save_config, and within the
\* calls made here never the every-tenth save
CommandNext ==
    \/ \E k \in Tasks : PMStart(k)
    \/ \E k \in Tasks : PMSaved2(k)
    \/ StopEventCmd
    \/ StartEventCmd
    \/ \E r \in RandomRanges : SetIntervalRandom(r[1], r[2])
    \/ \E c \in FixedCounts : SetIntervalFixed(c)

PipelineNext ==
    \/ \E u \in Users, m \in Messages : GroupHandler(u, m)
    \/ \E u \in Moderated : BanUser(u)
    \/ \E u \in Moderated : WhitelistUser(u)
    \/ SpamTick

(***************************************************************************)
(* The specifications.                                                     *)
(***************************************************************************)
Init ==
    /\ now = 0
    /\ SpamInit
    /\ EventInit
    /\ MilestoneInit
    /\ QueueInit
    /\ CacheInit
    /\ PipelineInit

SpamSpec == Init /\ [][SpamNext]_vars

\* the detector with the global flood check switched off, next to one
\* detector per user
IsolationNext ==
    \/ \E u \in Users, m \in Messages, wl \in BOOLEAN : IsSpamBeside(u, m, wl)
    \/ SpamTick

IsolationInitial == Init /\ ~cfg.types.flood

IsolationSpec == IsolationInitial /\ [][IsolationNext]_vars

\* the detector configured with burst_limit 3
DupInitial ==
    /\ now = 0
    /\ cfg \in DupConfigs
    /\ SpamFresh /\ EventInit /\ MilestoneInit /\ QueueInit /\ CacheInit
    /\ PipelineInit
DupSpec == DupInitial /\ [][DupNext]_vars

EventInitial == Init /\ cfg = BaseCfg

EventSpec == EventInitial /\ [][EventNext]_vars

RestartSpec == EventInitial /\ [][RestartNext]_vars

RerollSpec == EventInitial /\ [][RerollNext]_vars

\* an event is started, messages keep arriving, the awaited store writes
\* complete and the handler of a trigger goes on to settle its winner
StarveSpec ==
    /\ EventInitial
    /\ [][StarveNext]_vars
    /\ WF_vars(LoopingStart)
    /\ WF_vars(\E k \in Tasks : StarveMessage(k))
    /\ WF_vars(\E k \in Tasks : PMSaved1(k))
    /\ WF_vars(\E k \in Tasks : PMSaved2(k))
    /\ WF_vars(RerollAgain)

MilestoneInitial == Init /\ cfg = BaseCfg

MilestoneSpec == MilestoneInitial /\ [][MilestoneNext]_vars

MalformedSpec == MilestoneInitial /\ [][MalformedNext]_vars

QueueInitial == Init /\ cfg = BaseCfg

QueueSpec == QueueInitial /\ [][QueueNext]_vars

\* the loop task is scheduled: its sleep ends after flush_interval, and an
\* awaited bulk_write returns or raises
QueueFairSpec ==
    /\ QueueSpec
    /\ WF_vars(FlushBegins)
    /\ WF_vars(\E r \in BOOLEAN, idx \in SUBSET OpPositions : BulkWriteEnds(r, idx))

CacheInitial == Init /\ cfg = BaseCfg

CacheSpec == CacheInitial /\ [][CacheNext]_vars

\* the helpers called on caches that hold every entity
InvalidateInitial ==
    /\ now = 0
    /\ cfg = BaseCfg
    /\ SpamFresh /\ EventInit /\ MilestoneInit /\ QueueInit
    /\ CacheFresh /\ caches = WarmCaches
    /\ PipelineInit

InvalidateSpec == InvalidateInitial /\ [][InvalidateNext]_vars

CommandInitial == Init /\ cfg = BaseCfg

CommandSpec == CommandInitial /\ [][CommandNext]_vars

PipelineInitial == Init /\ cfg = BaseCfg

PipelineSpec == PipelineInitial /\ [][PipelineNext]_vars

QualifyInitial == Init /\ cfg = BaseCfg

QualifySpec == QualifyInitial /\ [][QualifyNext]_vars

(***************************************************************************)
(* Claims about the SpamDetector (checked under SpamSpec).                 *)
(***************************************************************************)
\* the last call got as far as the flood check / the burst check
LastReachedFlood == last.n > 0 /\ ReachedFlood(cfg, last.wl, last.res)
LastReachedBurst ==
    /\ last.n > 0 /\ cfg.enabled /\ ~last.wl
    /\ last.res \notin {AlreadyIgnored, "global_flood", "stickers"}

\* messages of the last caller inside burst_window before the last call:
\* all of them, and those classified Allow
PriorAsked == SumRange(askedAt[last.user], last.t - cfg.burst_window, last.t) - 1
PriorSent ==
    SumRange(sentAt[last.user], last.t - cfg.burst_window, last.t)
        - (IF last.res = Allow THEN 1 ELSE 0)

\* messages that reached the flood check inside global_flood_window,
\* the last call included
SeenInWindow == SumRange(seenAt, last.t - cfg.global_flood_window, last.t)

\* C1 as stated: with burst detection on and no other check firing, the
\* burst_limit-th message of a user inside burst_window is classified "burst"
\* and sets ignore_until = now + ignore_duration.
C1_BurstOnLimitTh ==
    ( /\ cfg.types.burst /\ LastReachedBurst
      /\ last.res \notin {"duplicate", "lowquality"}
      /\ PriorAsked = cfg.burst_limit - 1
      /\ PriorSent = PriorAsked )
    => /\ last.res = "burst"
       /\ ignored_users[last.user] = last.t + cfg.ignore_duration

\* C1 amended: a message that reaches the burst check is classified "burst"
\* exactly when burst_limit earlier allowed messages of the user lie inside
\* burst_window, i.e. the (burst_limit+1)-th message of the sequence and not
\* the burst_limit-th; it then sets ignore_until = now + ignore_duration.
C1_BurstAfterLimit ==
    (cfg.types.burst /\ LastReachedBurst)
    => /\ (last.res = "burst") <=> (PriorSent >= cfg.burst_limit)
       /\ last.res = "burst"
            => ignored_users[last.user] = last.t + cfg.ignore_duration

C1_Witness ==
    /\ cfg.types.burst /\ LastReachedBurst
    /\ last.res = "burst"
    /\ PriorSent = cfg.burst_limit /\ PriorAsked = cfg.burst_limit
    /\ ignored_users[last.user] = last.t + cfg.ignore_duration

\* C2: an is_spam call for a user (detector enabled, not whitelisted) at a time
\* now < ignore_until returns AlreadyIgnored and changes no classifier state:
\* histories, media windows, global window and ignore_until stay as they are.
C2_IgnoreDominates ==
    [][ ( /\ last'.n = last.n + 1
          /\ cfg.enabled /\ ~last'.wl
          /\ ignored_users[last'.user] # NotIgnored
          /\ now < ignored_users[last'.user] )
        => /\ last'.res = AlreadyIgnored
           /\ UNCHANGED <<user_history, media_history, global_history,
                          ignored_users>> ]_vars

C2_Witness ==
    /\ last.n > 0 /\ cfg.enabled /\ ~last.wl
    /\ last.res = AlreadyIgnored
    /\ last.t < ignored_users[last.user]

\* C3 as stated: with flood detection on, the (global_flood_limit+1)-th message
\* inside global_flood_window is classified "global_flood", and the messages
\* that follow while the window is still above the limit are not.
C3_FloodOncePerCrossing ==
    (cfg.types.flood /\ LastReachedFlood)
    => /\ SeenInWindow = cfg.global_flood_limit + 1 => last.res = "global_flood"
       /\ SeenInWindow > cfg.global_flood_limit + 1 => last.res # "global_flood"

\* C3 amended: a message that reaches the flood check is classified
\* "global_flood" exactly when, itself included, more than global_flood_limit
\* such messages lie inside global_flood_window: the (limit+1)-th is, and so
\* is every later one while the window stays above the limit.
C3_FloodWhileAbove ==
    (cfg.types.flood /\ LastReachedFlood)
    => ((last.res = "global_flood") <=> (SeenInWindow > cfg.global_flood_limit))

C3_Witness ==
    /\ cfg.types.flood /\ LastReachedFlood
    /\ last.res = "global_flood"
    /\ SeenInWindow = cfg.global_flood_limit + 2

\* a prior text matches when it is equal or its ratio reaches the threshold
Matches(c, old, text) ==
    old = text \/ RatioAtLeast(text, old, c.duplicate_threshold)

\* the call classifies a non-empty, non-low-quality text of a user who is not
\* ignored, whose retained history holds only matching texts, fewer than
\* three of them, under a burst limit of at least three and no global flood
RepeatCase(u, m) ==
    LET history == DropWhileOlderT(user_history[u], now - cfg.burst_window)
    IN  /\ cfg.enabled /\ cfg.types.duplicate /\ cfg.burst_limit >= 3
        /\ ~is_ignored(ignored_users, u, now)
        /\ ~m.media /\ m.text # <<>>
        /\ ~HasRepeatedRun(m.text) /\ ~IsSymbolSpam(m.text)
        /\ last'.res # "global_flood"
        /\ Len(history) < 3
        /\ \A i \in 1..Len(history) : Matches(cfg, history[i].text, m.text)

\* C13: the first and the second of three matching texts of one user within
\* burst_window are allowed; the third is classified 'duplicate' and sets
\* ignore_until = now + ignore_duration.  A ratio exactly at
\* duplicate_threshold matches.
C13_ThirdRepeatIsDuplicate ==
    [][\A u \in Users, m \in DupMessages :
         (IsSpam(u, m, FALSE) /\ RepeatCase(u, m)) =>
             LET history == DropWhileOlderT(user_history[u], now - cfg.burst_window)
             IN  IF Len(history) = 2
                 THEN /\ last'.res = "duplicate"
                      /\ ignored_users'[u] = now + cfg.ignore_duration
                 ELSE last'.res = Allow]_vars

\* a third text was classified 'duplicate' after two priors of which one
\* is similar exactly at the threshold and not equal
C13_Witness ==
    /\ last.res = "duplicate"
    /\ cfg.duplicate_threshold = 50
    /\ Len(user_history[last.user]) = 2
    /\ user_history[last.user][1].text # user_history[last.user][2].text
    /\ ignored_users[last.user] = last.t + cfg.ignore_duration

C36_MediaBurst ==
    [][\A u \in Users, m \in Messages :
         LET Kept(x) == x >= now - cfg.media_window
             window == SelectSeq(Append(media_history[u], now), Kept)
             inWindow == SumRange(mediaAt'[u], now - cfg.media_window, now)
         IN  ( /\ IsSpam(u, m, FALSE)
               /\ m.media /\ cfg.enabled /\ cfg.types.stickers
               /\ ~is_ignored(ignored_users, u, now)
               /\ last'.res # "global_flood" )
             => /\ media_history'[u] = window
                /\ Len(window) = inWindow
                /\ (last'.res = "stickers") <=> (inWindow >= cfg.media_limit + 1)
                /\ (last'.res = "stickers")
                     => /\ ignored_users'[u] = now + cfg.ignore_duration
                        /\ user_history'[u] = user_history[u]
                /\ (last'.res # "stickers")
                     => last'.res \in {Allow, "burst"}
       ]_vars

\* the second media message of a sender inside media_window (media_limit = 1)
\* has been classified "stickers"
C36_Witness ==
    /\ last.n > 0 /\ last.res = "stickers" /\ last.t = now
    /\ SumRange(mediaAt[last.user], now - cfg.media_window, now) = cfg.media_limit + 1
    /\ ignored_users[last.user] = now + cfg.ignore_duration

\* C39: with burst detection enabled, every user's retained message history
\* holds at most burst_limit entries after any sequence of is_spam calls, and
\* a call makes a history longer only when it classifies the message Allow.
C39_HistoryBounded ==
    /\ [](cfg.types.burst => \A u \in Users : Len(user_history[u]) <= cfg.burst_limit)
    /\ [][\A u \in Users :
            Len(user_history'[u]) > Len(user_history[u])
                => /\ last'.res = Allow /\ last'.user = u /\ last'.n = last.n + 1
                   /\ Len(user_history'[u]) = Len(user_history[u]) + 1
         ]_vars

\* a user whose history is full has been classified "burst"
C39_Witness ==
    /\ last.n > 0 /\ last.res = "burst" /\ cfg.types.burst
    /\ Len(user_history[last.user]) = cfg.burst_limit

\* C40: with flood detection disabled, the decision of every is_spam call for
\* a user, and the user's history, media window and ignore_until after it, are
\* those of a detector with the same configuration that was called, at the
\* same times, with this user's messages only (checked under IsolationSpec).
C40_IsolatedPerUser ==
    ~cfg.types.flood =>
        /\ \A u \in Users :
             /\ user_history[u] = solo[u].uh
             /\ media_history[u] = solo[u].mh
             /\ ignored_users[u] = solo[u].ign
        /\ last.n > 0 => last.res = solo[last.user].res

\* a user has been classified as spam on the strength of the user's own
\* messages of a tick at which the other user's messages were classified too
C40_Witness ==
    /\ ~cfg.types.flood /\ last.n > 2
    /\ last.res \in {"burst", "stickers", "duplicate", "lowquality"}
    /\ \E v \in Users \ {last.user} :
           \E t \in Ticks : askedAt[v][t] > 0 /\ askedAt[last.user][t] > 1

(***************************************************************************)
(* Claims about the EventManager (checked under EventSpec).                *)
(***************************************************************************)
\* the calls since the last start_event / set_fixed began from target >= 1,
\* current = 0, active and not paused, with nothing else interfering
CleanRun == evRun.sets > 0 /\ evRun.undisturbed /\ evRun.target >= 1

\* C4: with target T >= 1, current 0, active and not paused, of T sequential
\* process_message calls only the T-th returns true, and current_count is 0
\* right after the T-th call
C4_TriggerOnTargetTh ==
    (CleanRun /\ ~evRun.overlapped /\ evRun.done \in 1..evRun.target) =>
        /\ evRun.lastRet = (evRun.done = evRun.target)
        /\ evRun.trues = (IF evRun.done = evRun.target THEN 1 ELSE 0)
        /\ (evRun.done = evRun.target => ev.current_count = 0)

\* the T-th sequential call (T = 10) has returned true
C4_Witness ==
    /\ CleanRun /\ ~evRun.overlapped /\ Quiescent
    /\ evRun.target = 10 /\ evRun.done = 10
    /\ evRun.lastRet /\ evRun.trues = 1 /\ ev.current_count = 0

\* C5: interleaved process_message calls neither lose nor double count an
\* increment: in fixed mode with loop = true and target T, once N calls have
\* completed, floor(N / T) of them returned true and the rest of the
\* increments is in current_count
C5_InterleavedCallsAtomic ==
    (CleanRun /\ Quiescent /\ ev.mode = "fixed" /\ ev.loop) =>
        /\ evRun.trues = evRun.done \div evRun.target
        /\ evRun.trues * evRun.target + ev.current_count = evRun.done


\* C14: a process_message step changes target_count only when the call
\* triggers in random mode with loop = true (it then goes on to return true),
\* and the new target lies in min_target..max_target; so in fixed mode with
\* loop = true the target is the same after every trigger
C14_TargetOnlyRegeneratedOnLoop ==
    [][(evRun'.sets = evRun.sets /\ ev'.target_count # ev.target_count) =>
          /\ ev.mode = "random" /\ ev.loop
          /\ ev'.target_count \in ev.min_target..ev.max_target
          /\ \E k \in Tasks : pm[k].pc \in {"idle", "save1"} /\ pm'[k].pc = "save2"]_vars

\* a trigger in random mode with loop = true has drawn a new target
C14_Witness ==
    /\ CleanRun /\ Quiescent /\ ev.mode = "random" /\ ev.loop
    /\ evRun.trues >= 1 /\ evRun.lastRet
    /\ ev.target_count # evRun.target

\* C15: with loop = false the call that reaches the target returns true and
\* leaves active = false; every call made afterwards returns false and
\* changes neither the fields nor the store, until start_event or set_fixed
C15_OneShotWithoutLoop ==
    [][/\ (CleanRun' /\ ~ev'.loop) =>
            /\ evRun'.trues <= 1
            /\ (evRun'.trues = 1 => ~ev'.active)
            /\ (~evRun'.overlapped /\ evRun'.done = evRun'.target) =>
                    (evRun'.lastRet /\ evRun'.trues = 1 /\ ~ev'.active)
            /\ (~evRun'.overlapped /\ evRun'.done > evRun'.target) =>
                    (~evRun'.lastRet /\ evRun'.trues = 1 /\ ~ev'.active)
       /\ (~ev.active /\ ~ev.loop /\ pm' = pm /\ evRun'.done = evRun.done + 1) =>
            (~evRun'.lastRet /\ ev' = ev /\ evStore' = evStore)]_vars

\* fixed mode, target 2, loop = false: the 2nd call returned true, the 3rd false
C15_Witness ==
    /\ CleanRun /\ ~evRun.overlapped /\ Quiescent
    /\ ev.mode = "fixed" /\ ~ev.loop /\ evRun.target = 2
    /\ evRun.done = 3 /\ evRun.trues = 1 /\ ~evRun.lastRet /\ ~ev.active

\* C21: a process_message call made while active is false or while
\* now < paused_until returns false and changes neither the fields of the
\* manager nor the persisted documents
C21_InactiveOrPausedIsNoOp ==
    [][\A k \in Tasks :
          (PMStart(k) /\ (~ev.active \/ now < ev.paused_until)) =>
              /\ ev' = ev /\ evStore' = evStore /\ pm' = pm
              /\ evRun'.done = evRun.done + 1
              /\ ~evRun'.lastRet /\ evRun'.trues = evRun.trues]_vars

\* a call made during a pause has returned false and counted nothing
C21_Witness ==
    /\ evRun.sets > 0 /\ evRun.target >= 2 /\ Quiescent
    /\ ev.active /\ now < ev.paused_until
    /\ evRun.done = 1 /\ evRun.trues = 0 /\ ~evRun.lastRet
    /\ ev.current_count = 0

\* a step of process_message that resets current_count: the call is past the
\* comparison and goes on, through its saves, to return True
Resets(k) == pm[k].pc \in {"idle", "save1"} /\ pm'[k].pc \in {"cfg_get", "save2"}

\* C34: with target >= 1, whenever a process_message call completes
\* 0 <= current_count < target_count holds, and process_message sets
\* current_count to 0 only in a call that returns true
C34_ResetExactlyOnTarget ==
    [][/\ (evRun'.sets = evRun.sets /\ evRun'.done = evRun.done + 1
              /\ ev'.target_count >= 1)
            => (0 <= ev'.current_count /\ ev'.current_count < ev'.target_count)
       /\ (evRun'.sets = evRun.sets /\ ev'.current_count = 0 /\ ev.current_count # 0)
            => \E k \in Tasks : Resets(k)
      ]_vars

\* the same while no call is in flight: with target >= 1, once the calls made
\* have all completed, 0 <= current_count < target_count
C34_BetweenCalls ==
    (Quiescent /\ evRun.sets > 0 /\ ev.target_count >= 1) =>
        (0 <= ev.current_count /\ ev.current_count < ev.target_count)

\* C32: stop_event sets active = false and loop = false and leaves
\* current_count and target_count alone; from then on, until start_event or
\* set_fixed, no process_message call returns true and current_count does
\* not change, also for the calls that were suspended at a store write when
\* stop_event ran
C32_StopIsFinal ==
    [][/\ StopEvent =>
            /\ ~ev'.active /\ ~ev'.loop
            /\ ev'.current_count = ev.current_count
            /\ ev'.target_count = ev.target_count
       /\ (evRun.stopped /\ evRun'.sets = evRun.sets) =>
            /\ evRun'.trues = evRun.trues
            /\ ev'.current_count = ev.current_count
      ]_vars

\* the persisted event_state document agrees with the fields e up to the
\* unsaved progress: same target, current_count at most 9 behind
MaxLag == SaveEvery - 1
Persisted(st, e) ==
    /\ st.state # <<>>
    /\ st.state[1].target_count = e.target_count
    /\ e.current_count - st.state[1].current_count \in 0..MaxLag

\* C38: once the process_message, start_event and set_fixed calls made have
\* completed, the persisted target equals the in-memory target and the
\* in-memory current_count is ahead of the persisted one by at most 9; and
\* when a call that triggered completes, no call having overlapped another,
\* the persisted state equals the in-memory state, with current_count = 0
C38_PersistedTracksMemory ==
    /\ []((Quiescent /\ evRun.sets > 0) => Persisted(evStore, ev))
    /\ [][\A k \in Tasks :
            (PMSaved2(k) /\ ~evRun'.overlapped) =>
                (evStore'.state = <<StateDoc(ev')>> /\ ev'.current_count = 0)
         ]_vars

\* C11: once the caller has set current = target - 1 for an ineligible
\* winner, the next process_message call made while not paused returns true,
\* whatever the mode and the loop setting
C11_RerollRefires == ~evRun.rerollFailed

\* C20: after a restart every field of the EventManager has the value last
\* persisted: the interval document gives mode, min, max, loop and active,
\* the state document gives target and current, and a pause that was running
\* is still running
C20_RestartKeepsState ==
    [][EventRestart =>
          /\ ev'.paused_until = ev.paused_until
          /\ evStore'.interval # <<>> => IntervalDoc(ev') = evStore'.interval[1]
          /\ evStore'.state # <<>> => StateDoc(ev') = evStore'.state[1]]_vars

(***************************************************************************)
(* Claims about the MilestoneManager (checked under MilestoneSpec).        *)
(***************************************************************************)
\* C6: with activate_event called for every threshold check_milestone
\* returns, no threshold is returned as triggered twice, restarts that
\* rebuild the tracker from the persisted configuration included
C6_NoThresholdTwice == ~msRefired


\* a threshold the count has reached and the watermark has not
Due(conf, count, m) == m \in Thresholds /\ count >= m /\ m > conf.last_triggered

\* C23: check_milestone(count) is (false, none) while a window is active;
\* otherwise (true, m) for the smallest configured threshold m with
\* count >= m and m > last_triggered, and (false, none) when there is none
C23_CheckMilestoneIsReference ==
    \A count \in MemberCounts :
        LET r == check_milestone(msConf, count)
        IN  IF msConf.active_event.active \/ ~\E m \in Thresholds : Due(msConf, count, m)
            THEN ~r.triggered /\ r.milestone = 0
            ELSE /\ r.triggered
                 /\ Due(msConf, count, r.milestone)
                 /\ \A m \in Thresholds : Due(msConf, count, m) => r.milestone <= m

\* thresholds 1 and 2 were triggered in turn by the commands; the window of
\* 2 is active, so the due threshold 3 is not reported
C23_Witness ==
    /\ msFired = {1, 2} /\ ~msRefired
    /\ msConf.active_event.active /\ msConf.active_event.milestone = 2
    /\ Due(msConf, 3, 3) /\ ~check_milestone(msConf, 3).triggered

\* C24: activate_event(m) records the window with end_time = now + duration
\* and the multiplier and jackpot chance of m's entry, sets last_triggered = m
\* and persists both
C24_ActivateRecordsAndPersists ==
    [][\A count \in MemberCounts :
          LET r == check_milestone(check_expiry(msConf, now), count)
              d == EventDetails[r.milestone]
          IN  ((MilestoneCmd(count) \/ SetMilestoneCmd(count)) /\ r.triggered) =>
                  /\ msConf'.active_event =
                         [active |-> TRUE, end_time |-> now + d.duration_hours,
                          milestone |-> r.milestone, multiplier |-> d.multiplier,
                          jackpot_chance |-> d.jackpot_chance]
                  /\ msConf'.last_triggered = r.milestone
                  /\ msStore'.active_event = msConf'.active_event
                  /\ msStore'.last_triggered = msConf'.last_triggered]_vars

\* the check_expiry call of a command finds the window active and over
Expires(conf, t) == conf.active_event.active /\ t > conf.active_event.end_time

\* C25: check_expiry expires the window only when it is active with
\* now > end_time; it then resets active_event to the inactive shape with
\* multiplier 1 and persists it; otherwise it leaves the state unchanged
C25_ExpiryResetsAndPersists ==
    [][\A count \in MemberCounts :
          LET c1 == check_expiry(msConf, now)
          IN  ((MilestoneCmd(count) \/ SetMilestoneCmd(count))
                  /\ ~check_milestone(c1, count).triggered) =>
                  IF Expires(msConf, now)
                  THEN /\ ~msConf'.active_event.active
                       /\ msConf'.active_event.multiplier = 1
                       /\ msConf'.last_triggered = msConf.last_triggered
                       /\ msStore'.active_event = msConf'.active_event
                  ELSE msConf' = msConf /\ msStore' = msStore]_vars

\* C26: last_triggered never decreases, whatever the commands, reloads and
\* restarts
C26_WatermarkMonotonic ==
    [][msConf'.last_triggered >= msConf.last_triggered]_vars

\* C27: with a threshold entry that lacks a key, the decision that uses it
\* falls back to no milestone and no exception reaches the command
C27_MalformedEntryRaisesNothing == ~msErr

\* C12: a reward calculated after the end_time of the activated window gets
\* the neutral bonus (not active, multiplier 1), whether or not check_expiry
\* has run since
C12_BonusEndsWithWindow ==
    (msBonus.read /\ msBonus.late) =>
        (~msBonus.bonus.active /\ msBonus.bonus.multiplier = 1)

(***************************************************************************)
(* Claims about the WriteQueue (checked under QueueSpec).                  *)
(***************************************************************************)
\* the updates of the last flush that carry the key
HandedFor(k) == {i \in 1..Len(wqG.handed) : wqG.handed[i].key = k}

\* C7: the increment_stat(+1) calls made for a key before a flush are merged
\* by addition; the flush issues exactly one update for the key, whose delta
\* is the number N of those calls, and no update for a key without calls
C7_OneMergedUpdate ==
    wq.pc \in {"none", "sleep"} =>
        \A k \in WqKeys :
            IF wqG.merged[k] > 0
            THEN /\ Cardinality(HandedFor(k)) = 1
                 /\ \A i \in HandedFor(k) : wqG.handed[i].amount = wqG.merged[k]
            ELSE HandedFor(k) = {}

\* a flush has issued one update of +3 for three calls on one key
C7_Witness ==
    /\ wq.pc = "sleep"
    /\ \E k \in WqKeys :
          /\ wqG.merged[k] = 3
          /\ \E i \in HandedFor(k) : wqG.handed[i].amount = 3
          /\ wqStore[k] = 3

\* C8 as stated: right after a successful _flush returns the buffer is
\* empty, whatever increment_stat calls ran meanwhile
C8_EmptyAfterFlush ==
    (wqG.returned /\ wqG.ok) => wqBuf = <<>>

\* C8 as amended: right after a successful _flush returns the buffer holds
\* exactly the increments made since the flush took its snapshot, and is
\* empty when no increment_stat call ran during the flush
C8_BufferHoldsLaterIncrements ==
    (wqG.returned /\ wqG.ok) =>
        /\ \A k \in WqKeys : Buffered(wqBuf, k) = wqG.sinceSwap[k]
        /\ ~wqG.interleaved => wqBuf = <<>>

\* a successful flush has returned with increments made during its writes
\* in the buffer
C8_Witness ==
    /\ wqG.returned /\ wqG.ok /\ wqG.interleaved
    /\ \E k \in WqKeys : Buffered(wqBuf, k) = 2 /\ wqG.merged[k] = 1

\* C16: when the bulk write of one collection raises, the flush goes on to
\* the batches of the other collections; nothing of the failed batch is put
\* back into the buffer or written again; and the snapshot of the next flush
\* holds exactly the increments buffered since the previous snapshot
C16_FailedBatchIsDropped ==
    [][/\ (wq.pc = "write" /\ wq' # wq /\ wq'.pc # "stopped") =>
            /\ wq'.owed = Tail(wq.owed)
            /\ wq'.pc = (IF Len(wq.owed) > 1 THEN "write" ELSE "sleep")
            /\ wqBuf' = wqBuf
       /\ (wq.pc = "sleep" /\ wq'.pc = "write") =>
            \A k \in WqKeys : OwedAmount(wq'.owed, k) = wqG.sinceSwap[k]]_vars

\* the batch of one collection has failed with nothing applied, the batch of
\* the other collection is being written, and the buffer is empty
C16_Witness ==
    /\ wq.pc = "write" /\ ~wqG.ok /\ wqBuf = <<>>
    /\ \E k \in WqKeys :
          /\ k.collection # wq.owed[1].coll
          /\ wqG.merged[k] > 0 /\ wqStore[k] = 0

\* C17: an increment_stat call made while a bulk write is in flight completes
\* at once into the new buffer and leaves the snapshot being written and the
\* store alone; the next flush takes everything the buffer holds
C17_IncrementsDuringFlush ==
    [][/\ (wq.pc = "write" /\ wqG'.calls = wqG.calls + 1) =>
            /\ wq' = wq /\ wqStore' = wqStore
            /\ \A k \in WqKeys :
                  Buffered(wqBuf', k) - Buffered(wqBuf, k)
                      = wqG'.issued[k] - wqG.issued[k]
       /\ (wq.pc = "sleep" /\ wq'.pc = "write") =>
            /\ wqBuf' = <<>>
            /\ \A k \in WqKeys : OwedAmount(wq'.owed, k) = Buffered(wqBuf, k)]_vars

\* during a bulk write a key of the snapshot in flight was incremented again
C17_Witness ==
    /\ wq.pc = "write" /\ wqG.interleaved
    /\ \E k \in WqKeys : OwedAmount(wq.owed, k) > 0 /\ Buffered(wqBuf, k) > 0

\* C18: the store never holds more than was issued for a key; and as long as
\* no bulk write has raised and the loop was not cancelled, applied + in
\* flight + buffered = issued, for every key in every state
C18_Conservation ==
    \A k \in WqKeys :
        /\ wqStore[k] <= wqG.issued[k]
        /\ ~wqG.failed =>
              wqStore[k] + OwedAmount(wq.owed, k) + Buffered(wqBuf, k) = wqG.issued[k]

\* one key has a delta applied, one in flight and one buffered
C18_Witness ==
    /\ ~wqG.failed /\ wq.pc = "write"
    /\ \E k \in WqKeys :
          wqStore[k] = 1 /\ OwedAmount(wq.owed, k) = 1 /\ Buffered(wqBuf, k) = 1

\* C19: while the flush loop runs, what is buffered is taken into a snapshot
\* (the buffer is emptied by the next flush tick)
C19_BufferedIsFlushed ==
    (wq.pc \in {"sleep", "write"} /\ wqBuf # <<>>) ~>
        (wqG.sinceSwap = ZeroPerKey \/ wq.pc = "stopped")

\* a second flush tick has taken the increments buffered during the first
C19_Witness ==
    /\ wq.pc = "write" /\ wqBuf = <<>> /\ ~wqG.failed
    /\ \E k \in WqKeys : wqStore[k] > 0 /\ OwedAmount(wq.owed, k) > 0

\* C10: once the flush loop has been cancelled, the flush that was in flight
\* has issued all its writes and no buffered delta was left without a write
\* being attempted for it
C10_GracefulShutdown ==
    wq.pc = "stopped" =>
        /\ wq.owed = <<>>
        /\ \A k \in WqKeys : wqG.lost[k] = 0


(***************************************************************************)
(* Claims about the cache (checked under CacheSpec).                       *)
(***************************************************************************)
\* C9: a read of a user that directly follows a write of that user returns
\* what the write stored, never the value cached before the write
C9_ReadAfterWriteFresh ==
    (cacheLast.op = "read" /\ cacheLast.afterWrite) =>
        cacheLast.value = userStore[cacheLast.user]

\* the entities a cache holds
Entries(c) == {c[k] : k \in DOMAIN c}

\* cache c2 is cache c1 without the entry of entity e, every other entry
\* being as it was
Without(c1, c2, e) ==
    /\ Entries(c2) = Entries(c1) \ {e}
    /\ DOMAIN c2 \subseteq DOMAIN c1
    /\ \A k \in DOMAIN c2 : c2[k] = c1[k]

\* C37: invalidate_user(user, group) removes exactly the profile entry and
\* the eligibility entry of (user, group); invalidate_stats(user, group, date)
\* exactly that user's daily-stats entry and the leaderboard entry of
\* (group, date); invalidate_config(key) exactly that config entry; every
\* other key and every other cache is unchanged, and a call for an absent
\* key changes nothing
C37_InvalidateExactly ==
    [][/\ \A u \in UserIds, g \in GroupIds :
            InvalidateUser(u, g) =>
                /\ Without(caches.user_cache, caches'.user_cache, <<u, g>>)
                /\ Without(caches.elgbl_cache, caches'.elgbl_cache, <<u, g>>)
                /\ caches'.stats_cache = caches.stats_cache
                /\ caches'.top_cache = caches.top_cache
                /\ caches'.config_cache = caches.config_cache
       /\ \A u \in UserIds, g \in GroupIds, d \in Dates :
            InvalidateStats(u, g, d) =>
                /\ Without(caches.stats_cache, caches'.stats_cache, <<u, g, d>>)
                /\ Without(caches.top_cache, caches'.top_cache, <<g, d>>)
                /\ caches'.user_cache = caches.user_cache
                /\ caches'.elgbl_cache = caches.elgbl_cache
                /\ caches'.config_cache = caches.config_cache
       /\ \A c \in ConfigKeys :
            InvalidateConfig(c) =>
                /\ Without(caches.config_cache, caches'.config_cache, c)
                /\ caches'.user_cache = caches.user_cache
                /\ caches'.elgbl_cache = caches.elgbl_cache
                /\ caches'.stats_cache = caches.stats_cache
                /\ caches'.top_cache = caches.top_cache
      ]_vars

\* each helper has removed one entity and left the others of the kind
C37_Witness ==
    /\ Entries(caches.user_cache) = UserEntities \ {<<1, 12>>}
    /\ Entries(caches.elgbl_cache) = UserEntities \ {<<1, 12>>}
    /\ Entries(caches.stats_cache) = StatsEntities \ {<<11, 2, <<"d", "1">>>>}
    /\ Entries(caches.top_cache) = TopEntities \ {<<2, <<"d", "1">>>>}
    /\ Entries(caches.config_cache) = ConfigKeys \ {<<"a">>}

(***************************************************************************)
(* Claims about the re-roll (checked under StarveSpec).                    *)
(***************************************************************************)
\* C35: when every triggered winner is ineligible, each trigger is answered
\* by the re-roll, which leaves current_count = target_count - 1; the next
\* message then fires again (the call returns true unless it overlaps
\* another call); triggers fire again and again, and no reward is ever
\* granted
C35_RerollStarves ==
    /\ [](~evRun.granted)
    /\ [][RerollAgain => ev'.current_count = ev'.target_count - 1]_vars
    /\ [][(evRun'.rerollFailed /\ ~evRun.rerollFailed) => evRun.overlapped]_vars
    /\ []<>(evRun.lastRet /\ evRun.unsettled > 0)
    /\ []<>(evRun.armed /\ ev.current_count = ev.target_count - 1)

\* the message after a re-roll has triggered again and nothing was granted
C35_Witness ==
    /\ evRun.sets > 0 /\ evRun.target = 1 /\ ev.current_count = 0
    /\ evRun.done = 1 /\ evRun.trues = 1 /\ evRun.lastRet
    /\ evRun.unsettled = 1 /\ ~evRun.granted /\ Quiescent

(***************************************************************************)
(* Claims about the admin commands (checked under CommandSpec).            *)
(***************************************************************************)
\* C33: once /stopevent has replied that the reward events are stopped,
\* active is false and no later message triggers a reward; right after
\* /setinterval N the manager is in fixed mode with target N and current 0,
\* and right after /setinterval A B in random mode with a target in A..B and
\* current 0
C33_CommandsDrive ==
    /\ replied.cmd = "stopped" => (~ev.active /\ evRun.trues = 0)
    /\ (replied.cmd = "fixed" /\ Calls = 0) =>
            /\ ev.mode = "fixed"
            /\ ev.target_count = replied.lo /\ ev.current_count = 0
    /\ (replied.cmd = "random" /\ Calls = 0) =>
            /\ ev.mode = "random"
            /\ ev.target_count \in replied.lo..replied.hi /\ ev.current_count = 0

(***************************************************************************)
(* Claims about group_handler (checked under PipelineSpec).                *)
(***************************************************************************)
\* C28: a message of a sender whose stored status is whitelisted is never
\* treated as spam: the sender is not ignored, no ignore_until is set for
\* them, no exception ends the handling, and the message does not enter the
\* global flood window
C28_WhitelistedNeverSpam ==
    [][(handled'.n = handled.n + 1 /\ handled'.stored.is_whitelisted) =>
          /\ handled'.out \notin {"ignored", "raised"}
          /\ ignored_users'[handled'.user] = ignored_users[handled'.user]
          /\ global_history' = global_history]_vars

\* C29: when is_spam returns a per-user kind for a sender who is neither
\* banned nor penalized while the system is not paused, the handler goes on
\* to record the violation and the penalty (it does not end in an exception)
C29_UserSpamIsPenalized ==
    [][(/\ handled'.n = handled.n + 1
        /\ handled'.res \in UserKinds
        /\ ~handled'.wasPaused
        /\ handled'.out # "banned") =>
            handled'.out # "raised"]_vars

\* C30: when is_spam reports 'global_flood' for a message, the system is
\* paused once the handler has finished with it
C30_FloodImposesPause ==
    [][(handled'.n = handled.n + 1 /\ handled'.res = "global_flood") =>
          now < ev'.paused_until]_vars

\* the sender is banned or under a penalty that is in force
Restricted(status, t) ==
    status.is_banned \/ (status.is_penalized /\ ~(status.penalty_expires < t))

\* the message of the handler step passes every gate, the sender's status
\* being status
PassesGates(status) ==
    /\ ~Restricted(status, now)
    /\ handled'.res = Allow
    /\ ~IsCommand(gate'.msg.text)
    /\ ~gate'.msg.media
    /\ ~handled'.wasPaused

\* only the handler of a qualifying message buffers a tally and goes on to
\* process_message, and only such a handler advances current_count or
\* returns from a trigger
OnlyQualifiedCount ==
    /\ [][\A k \in Tasks : (pm'[k].pc = "bulk" /\ pm[k].pc # "bulk") =>
            (handled'.n = handled.n + 1 /\ handled'.out = "qualified"
                /\ gate'.task = k)]_vars
    /\ [][wqBuf' # wqBuf =>
            (handled'.n = handled.n + 1 /\ handled'.out = "qualified")]_vars
    /\ [][ev'.current_count > ev.current_count =>
            (WinnerIneligible \/ \E k \in Tasks : Counted(k))]_vars
    /\ [][evRun'.unsettled > evRun.unsettled => \E k \in Tasks : PMSaved2(k)]_vars

\* C31: a message is treated as a qualifying activity event (its tally is
\* buffered and process_message is called for it) only if its sender is
\* neither banned nor penalized, is_spam returned Allow, the text is not a
\* command, the message is not media and the system is not paused; no other
\* message advances current_count or triggers a reward
C31_QualifyingGates ==
    /\ [][(handled'.n = handled.n + 1 /\ handled'.out = "qualified") =>
            PassesGates(userStore[handled'.user])]_vars
    /\ OnlyQualifiedCount

\* the same with the status as the handler read it through the cache
C31_GatesAsRead ==
    /\ [][(handled'.n = handled.n + 1 /\ handled'.out = "qualified") =>
            PassesGates(gate'.status)]_vars
    /\ OnlyQualifiedCount

====
